---- MODULE Spec2Model ----
(***************************************************************************)
(* The mock domain store (domains-store), the mock verification workflow   *)
(* (domains-mock-api) and the operations exported on the store.            *)
(*                                                                         *)
(* Strings that the code trims, lower-cases or tests for a suffix are      *)
(* sequences of one-character strings, so that trim(), toLowerCase() and   *)
(* endsWith() are computed character by character.                         *)
(***************************************************************************)
EXTENDS Integers, Sequences, FiniteSets, TLC

\* Number of store operations explored from the seeded store.
MaxClock == 2

----------------------------------------------------------------------------
\* JavaScript string primitives used by the store

\* Characters String.prototype.trim() strips (space, tab).
WhiteSpace == {" ", "\t"}

UpperCase == <<"A", "B", "C", "D", "E", "F", "G", "H", "I", "J", "K", "L", "M",
               "N", "O", "P", "Q", "R", "S", "T", "U", "V", "W", "X", "Y", "Z">>

LowerCase == <<"a", "b", "c", "d", "e", "f", "g", "h", "i", "j", "k", "l", "m",
               "n", "o", "p", "q", "r", "s", "t", "u", "v", "w", "x", "y", "z">>

toLowerCaseChar(c) ==
    IF \E i \in 1..Len(UpperCase) : UpperCase[i] = c
    THEN LowerCase[CHOOSE i \in 1..Len(UpperCase) : UpperCase[i] = c]
    ELSE c

\* String.prototype.toLowerCase()
toLowerCase(s) == [i \in 1..Len(s) |-> toLowerCaseChar(s[i])]

RECURSIVE trimStart(_)
trimStart(s) ==
    IF Len(s) > 0 /\ s[1] \in WhiteSpace THEN trimStart(Tail(s)) ELSE s

RECURSIVE trimEnd(_)
trimEnd(s) ==
    IF Len(s) > 0 /\ s[Len(s)] \in WhiteSpace
    THEN trimEnd(SubSeq(s, 1, Len(s) - 1))
    ELSE s

\* Mutant: the name is used as typed, never trimmed.
trim_Omitted(s) == s

\* String.prototype.trim()
trim(s) == trimEnd(trimStart(s))

\* Mutant: startsWith() written for endsWith().
endsWith_StartsWith(s, suffix) ==
    /\ Len(s) >= Len(suffix)
    /\ SubSeq(s, 1, Len(suffix)) = suffix

\* String.prototype.endsWith()
endsWith(s, suffix) ==
    /\ Len(s) >= Len(suffix)
    /\ SubSeq(s, Len(s) - Len(suffix) + 1, Len(s)) = suffix

\* An optional value: undefined is the empty set, a present value v is {v}.
Undefined == {}
Some(v) == {v}

----------------------------------------------------------------------------
\* Constants of the code

\* The fixed expected token imported from features/domains/constants; only
\* its identity matters (the code compares it with !==), so it is opaque.
DOMAIN_VERIFY_TOKEN == "DOMAIN_VERIFY_TOKEN"

\* ".invalid", the suffix that simulates a DNS failure.
SentinelSuffix == <<".", "i", "n", "v", "a", "l", "i", "d">>

MsgMissingDomain == "Domain is required."
MsgInvalidToken == "Invalid verification token."
MsgDnsFailed == "DNS verification failed. Check the TXT record and try again."
MsgAlreadyVerified == "Domain is already verified."

\* new ApiError(message, status, { message })
ApiError(message, status) ==
    [message |-> message, status |-> status, data |-> [message |-> message]]

----------------------------------------------------------------------------
\* Names used as inputs

ExampleCom == <<"e", "x", "a", "m", "p", "l", "e", ".", "c", "o", "m">>
TestDev == <<"t", "e", "s", "t", ".", "d", "e", "v">>
StagingMyappIo == <<"s", "t", "a", "g", "i", "n", "g", ".", "m", "y", "a", "p", "p", ".", "i", "o">>

EmptyName == <<>>
BlankName == <<" ", "\t">>
TestDevPadded == <<" ", "T", "E", "S", "T", ".", "d", "e", "v", " ">>
NewIo == <<"n", "e", "w", ".", "i", "o">>
NewIoPadded == <<" ", "N", "e", "w", ".", "i", "o">>
XInvalid == <<"x", ".", "i", "n", "v", "a", "l", "i", "d">>
XInvalidPadded == <<"x", ".", "i", "n", "v", "a", "l", "i", "d", " ">>

\* Domain names a verification request may carry.
VerifyNames ==
    {EmptyName, BlankName, TestDev, TestDevPadded, StagingMyappIo, NewIo,
     NewIoPadded, XInvalid, XInvalidPadded}

\* Tokens a verification request may carry ("" is the handler's default).
Tokens == {DOMAIN_VERIFY_TOKEN, "", "wrong-token"}

\* New names a rename may carry.
RenameNames == {TestDev, NewIoPadded, XInvalid}

\* Names of records handed to upsertDomain.
UpsertNames == {NewIoPadded, XInvalid}

\* An id no uid() call returns.
ExternalIds == {0}

----------------------------------------------------------------------------
\* State

VARIABLES
    records,    \* domainsStore.records
    clock,      \* the wall clock nowIso() reads; one tick per store operation
    nextUid,    \* the next value uid() returns
    before,     \* domainsStore.records before the last operation
    lastCall,   \* the last operation, its arguments and what it returned
    thrown,     \* every ApiError verifyDomainMock has thrown so far
    requests,   \* the POST /domains/verify requests in flight in the mock handler
    queries,    \* the queries and mutations of the views, as the query client runs them
    scanView,   \* the state of the mounted ScanDetail view
    apiCall,   \* the call of a domains API function in progress
    scanForm,   \* the NewScan view: its form values, the scan defaults loaded, the submission
    queryCache,   \* the query client's data under ["domains"], its last write, the invalidations of ["scans"]
    domainsList,   \* the DomainsList view: its state, its URL parameters, its mutations
    domainDetail    \* the verifyMutation of a DomainDetail view

vars == <<records, clock, nextUid, before, lastCall, thrown, requests,
          queries, scanView, apiCall, scanForm, queryCache,
          domainsList, domainDetail>>

\* What the store operations leave alone.
outsideStore == <<requests, queries, scanView, apiCall, scanForm,
                  queryCache, domainsList, domainDetail>>

\* No request in flight, no query observed, no ScanDetail view mounted.
NoRequests == <<>>
NoQueries == <<>>
NoScanView ==
    [mounted |-> FALSE, taskId |-> Undefined, effectPending |-> FALSE,
     scan |-> Undefined, results |-> <<>>, aiSummary |-> "", progress |-> 0,
     interval |-> Undefined, taskIdChanged |-> FALSE, ticks |-> 0]

\* The NewScan view is not open.
NoScanForm ==
    [page |-> "none",
     values |-> [domain_id |-> "", target_url |-> "",
                 checks |-> [sqli |-> TRUE, xss |-> TRUE,
                             openRedirect |-> TRUE, headers |-> TRUE],
                 timeout |-> 60, evidence |-> "normal",
                 autoOpenReport |-> TRUE, ai |-> TRUE,
                 authorization |-> FALSE],
     defaultsData |-> Undefined, effectPending |-> FALSE,
     isSubmitting |-> FALSE, errors |-> {}, submitted |-> Undefined]

\* DomainsList as it mounts at /app/domains: the useState initial values, no
\* modal or domain parameter in the URL, no navigation under way, no
\* verification in flight and the remove mutation before its first mutate().
DomainsListMounted ==
    [isModalOpen |-> FALSE, modalStep |-> "domain", domainInput |-> <<>>,
     acknowledged |-> FALSE, errorMessage |-> Undefined,
     domainToRemove |-> Undefined,
     modalParam |-> Undefined, domainParam |-> Undefined,
     pendingParams |-> Undefined,
     verifications |-> {},
     removal |-> [pc |-> "idle", domainId |-> 0, domainName |-> <<>>,
                  requested |-> <<>>, succeeded |-> <<>>],
     toast |-> Undefined]

\* No call of a domains API function in progress.
NoApiCall ==
    [pc |-> "idle", fn |-> "", useMocks |-> FALSE, hasWindow |-> TRUE,
     payload |-> [domain |-> EmptyName, token |-> ""],
     requestError |-> Undefined, answeredBy |-> "", thrownError |-> Undefined]

\* Mutant: verified_at is left out of the new record.
createDomainRecord_NoVerifiedAt(domainName, id, timestamp, verified, scanCount, lastScan) ==
    [id |-> id,
     user_id |-> "usr_123",
     domain_name |-> domainName,
     isVerified |-> verified,
     verification_token |-> "HYOW-VERIFY-PLACEHOLDER-XXXXXX",
     created_at |-> timestamp,
     verified_at |-> Undefined,
     scanCount |-> scanCount,
     lastScan |-> lastScan]

\* createDomainRecord(domainName, { verified, scanCount, lastScan })
createDomainRecord(domainName, id, timestamp, verified, scanCount, lastScan) ==
    [id |-> id,
     user_id |-> "usr_123",
     domain_name |-> domainName,
     isVerified |-> verified,
     verification_token |-> "HYOW-VERIFY-PLACEHOLDER-XXXXXX",
     created_at |-> timestamp,
     verified_at |-> IF verified THEN Some(timestamp) ELSE Undefined,
     scanCount |-> scanCount,
     lastScan |-> lastScan]

\* createInitialDomains(), with uid() returning 1, 2, 3 at time 0
createInitialDomains ==
    <<createDomainRecord(ExampleCom, 1, 0, TRUE, 5, Some(0)),
      createDomainRecord(TestDev, 2, 0, TRUE, 3, Some(0)),
      createDomainRecord(StagingMyappIo, 3, 0, FALSE, 0, Undefined)>>

\* Array.prototype.find / findIndex over the positions whose element
\* satisfies the predicate: the first of them, 0 when there is none.
FindIndex(matching) ==
    IF matching = {} THEN 0
    ELSE CHOOSE i \in matching : \A j \in matching : i <= j

\* Array.prototype.unshift
Unshift(recs, r) == <<r>> \o recs

\* Mutant: names are compared without lower-casing.
findDomainByName_CaseSensitive(recs, domainName) ==
    LET Match(domain) == domain.domain_name = trim(domainName)
    IN FindIndex({i \in 1..Len(recs) : Match(recs[i])})

\* findDomainByName: the position of the record found, 0 for undefined.
findDomainByName(recs, domainName) ==
    LET Match(domain) ==
            toLowerCase(domain.domain_name) = trim(toLowerCase(domainName))
    IN FindIndex({i \in 1..Len(recs) : Match(recs[i])})

\* findDomainById: the position of the record found, 0 for undefined.
findDomainById(recs, domainId) ==
    LET Match(domain) == domain.id = domainId
    IN FindIndex({i \in 1..Len(recs) : Match(recs[i])})

\* Mutant: the record is prepended even when its id is already stored.
upsertDomain_AlwaysUnshift(recs, domain) == Unshift(recs, domain)

\* Mutant: the replaced record is moved to the front of the store.
upsertDomain_MoveToFront(recs, domain) ==
    LET Match(item) == item.id = domain.id
        existingIndex == FindIndex({i \in 1..Len(recs) : Match(recs[i])})
    IN IF existingIndex > 0
       THEN Unshift(SubSeq(recs, 1, existingIndex - 1)
                        \o SubSeq(recs, existingIndex + 1, Len(recs)), domain)
       ELSE Unshift(recs, domain)

\* upsertDomain: the store after the call.
upsertDomain(recs, domain) ==
    LET Match(item) == item.id = domain.id
        existingIndex == FindIndex({i \in 1..Len(recs) : Match(recs[i])})
    IN IF existingIndex > 0
       THEN [recs EXCEPT ![existingIndex] = domain]
       ELSE Unshift(recs, domain)

\* Mutant: the lookup is forgotten and a record is always created.
verifyDomainRecord_AlwaysCreate(recs, domainName, now, id) ==
    [records |-> Unshift(recs,
                    createDomainRecord(domainName, id, now, TRUE, 0, Undefined)),
     returned |-> 1,
     created |-> TRUE]

\* Mutant: a new record is pushed to the end of the store.
verifyDomainRecord_Push(recs, domainName, now, id) ==
    LET normalized == toLowerCase(trim(domainName))
        Match(domain) == toLowerCase(domain.domain_name) = normalized
        existing == FindIndex({i \in 1..Len(recs) : Match(recs[i])})
    IN IF existing > 0
       THEN [records |-> [recs EXCEPT ![existing].isVerified = TRUE,
                                      ![existing].verified_at = Some(now)],
             returned |-> existing,
             created |-> FALSE]
       ELSE [records |-> Append(recs,
                            createDomainRecord(domainName, id, now, TRUE, 0, Undefined)),
             returned |-> Len(recs) + 1,
             created |-> TRUE]

\* verifyDomainRecord: the store after the call, the position of the record
\* returned, and whether createDomainRecord made it.
verifyDomainRecord(recs, domainName, now, id) ==
    LET normalized == toLowerCase(trim(domainName))
        Match(domain) == toLowerCase(domain.domain_name) = normalized
        existing == FindIndex({i \in 1..Len(recs) : Match(recs[i])})
    IN IF existing > 0
       THEN [records |-> [recs EXCEPT ![existing].isVerified = TRUE,
                                      ![existing].verified_at = Some(now)],
             returned |-> existing,
             created |-> FALSE]
       ELSE [records |-> Unshift(recs,
                            createDomainRecord(domainName, id, now, TRUE, 0, Undefined)),
             returned |-> 1,
             created |-> TRUE]

\* Mutant: a name another record carries is refused (null is returned).
updateDomainRecord_UniqueNames(recs, domainId, updates) ==
    LET existing == findDomainById(recs, domainId)
        taken == \E i \in 1..Len(recs), n \in updates :
                    /\ i # existing
                    /\ toLowerCase(recs[i].domain_name) = toLowerCase(n)
    IN IF existing = 0 \/ taken
       THEN [records |-> recs, returned |-> 0]
       ELSE IF updates # Undefined
       THEN [records |-> [recs EXCEPT
                            ![existing].domain_name = CHOOSE n \in updates : TRUE,
                            ![existing].isVerified = FALSE,
                            ![existing].verified_at = Undefined],
             returned |-> existing]
       ELSE [records |-> recs, returned |-> existing]

\* Mutant: verification is reset only when the name really changes.
updateDomainRecord_OnlyIfChanged(recs, domainId, updates) ==
    LET existing == findDomainById(recs, domainId)
    IN IF existing = 0
       THEN [records |-> recs, returned |-> 0]
       ELSE IF updates # Undefined /\ recs[existing].domain_name \notin updates
       THEN [records |-> [recs EXCEPT
                            ![existing].domain_name = CHOOSE n \in updates : TRUE,
                            ![existing].isVerified = FALSE,
                            ![existing].verified_at = Undefined],
             returned |-> existing]
       ELSE [records |-> recs, returned |-> existing]

\* updateDomainRecord: updates.domain_name is Undefined or Some(name); the
\* position of the record returned is 0 for null.
\* Mutant: a rename resets isVerified but keeps verified_at.
updateDomainRecord_KeepsVerifiedAt(recs, domainId, updates) ==
    LET existing == findDomainById(recs, domainId)
    IN IF existing = 0
       THEN [records |-> recs, returned |-> 0]
       ELSE IF updates # Undefined
       THEN [records |-> [recs EXCEPT
                            ![existing].domain_name = CHOOSE n \in updates : TRUE,
                            ![existing].isVerified = FALSE],
             returned |-> existing]
       ELSE [records |-> recs, returned |-> existing]

updateDomainRecord(recs, domainId, updates) ==
    LET existing == findDomainById(recs, domainId)
    IN IF existing = 0
       THEN [records |-> recs, returned |-> 0]
       ELSE IF updates # Undefined
       THEN [records |-> [recs EXCEPT
                            ![existing].domain_name = CHOOSE n \in updates : TRUE,
                            ![existing].isVerified = FALSE,
                            ![existing].verified_at = Undefined],
             returned |-> existing]
       ELSE [records |-> recs, returned |-> existing]

\* Array.prototype.splice(index, 1)
Splice(recs, index) ==
    SubSeq(recs, 1, index - 1) \o SubSeq(recs, index + 1, Len(recs))

\* Mutant: splice(index) without a delete count drops the rest of the store.
removeDomainRecord_SpliceToEnd(recs, domainId) ==
    LET index == findDomainById(recs, domainId)
    IN IF index > 0
       THEN [records |-> SubSeq(recs, 1, index - 1), returned |-> TRUE]
       ELSE [records |-> recs, returned |-> FALSE]

\* removeDomainRecord: the store after the call and the boolean returned.
removeDomainRecord(recs, domainId) ==
    LET index == findDomainById(recs, domainId)
    IN IF index > 0
       THEN [records |-> Splice(recs, index), returned |-> TRUE]
       ELSE [records |-> recs, returned |-> FALSE]

\* Mutant: the record is marked verified before the request is checked.
verifyDomainMock_VerifyBeforeChecks(recs, domain, token, now, id) ==
    LET normalized == trim(domain)
        verified == verifyDomainRecord(recs, normalized, now, id)
        Throw(e) == [error |-> Some(e),
                     records |-> IF verified.created THEN recs ELSE verified.records,
                     returned |-> 0, created |-> FALSE]
        existing == findDomainByName(recs, normalized)
    IN IF normalized = <<>>
       THEN Throw(ApiError(MsgMissingDomain, 400))
       ELSE IF token # DOMAIN_VERIFY_TOKEN
       THEN Throw(ApiError(MsgInvalidToken, 400))
       ELSE IF endsWith(normalized, SentinelSuffix)
       THEN Throw(ApiError(MsgDnsFailed, 422))
       ELSE IF existing > 0 /\ recs[existing].isVerified
       THEN Throw(ApiError(MsgAlreadyVerified, 409))
       ELSE [error |-> Undefined, records |-> verified.records,
             returned |-> verified.returned, created |-> verified.created]

\* Mutant: the sentinel suffix is tested before the token.
verifyDomainMock_SentinelFirst(recs, domain, token, now, id) ==
    LET normalized == trim(domain)
        Throw(e) == [error |-> Some(e), records |-> recs,
                     returned |-> 0, created |-> FALSE]
        existing == findDomainByName(recs, normalized)
        verified == verifyDomainRecord(recs, normalized, now, id)
    IN IF normalized = <<>>
       THEN Throw(ApiError(MsgMissingDomain, 400))
       ELSE IF endsWith(normalized, SentinelSuffix)
       THEN Throw(ApiError(MsgDnsFailed, 422))
       ELSE IF token # DOMAIN_VERIFY_TOKEN
       THEN Throw(ApiError(MsgInvalidToken, 400))
       ELSE IF existing > 0 /\ recs[existing].isVerified
       THEN Throw(ApiError(MsgAlreadyVerified, 409))
       ELSE [error |-> Undefined, records |-> verified.records,
             returned |-> verified.returned, created |-> verified.created]

\* Mutant: the token is tested before the name.
verifyDomainMock_TokenFirst(recs, domain, token, now, id) ==
    LET normalized == trim(domain)
        Throw(e) == [error |-> Some(e), records |-> recs,
                     returned |-> 0, created |-> FALSE]
        existing == findDomainByName(recs, normalized)
        verified == verifyDomainRecord(recs, normalized, now, id)
    IN IF token # DOMAIN_VERIFY_TOKEN
       THEN Throw(ApiError(MsgInvalidToken, 400))
       ELSE IF normalized = <<>>
       THEN Throw(ApiError(MsgMissingDomain, 400))
       ELSE IF endsWith(normalized, SentinelSuffix)
       THEN Throw(ApiError(MsgDnsFailed, 422))
       ELSE IF existing > 0 /\ recs[existing].isVerified
       THEN Throw(ApiError(MsgAlreadyVerified, 409))
       ELSE [error |-> Undefined, records |-> verified.records,
             returned |-> verified.returned, created |-> verified.created]

\* Mutant: an already verified domain is reported as a bad request.
verifyDomainMock_Conflict400(recs, domain, token, now, id) ==
    LET normalized == trim(domain)
        Throw(e) == [error |-> Some(e), records |-> recs,
                     returned |-> 0, created |-> FALSE]
        existing == findDomainByName(recs, normalized)
        verified == verifyDomainRecord(recs, normalized, now, id)
    IN IF normalized = <<>>
       THEN Throw(ApiError(MsgMissingDomain, 400))
       ELSE IF token # DOMAIN_VERIFY_TOKEN
       THEN Throw(ApiError(MsgInvalidToken, 400))
       ELSE IF endsWith(normalized, SentinelSuffix)
       THEN Throw(ApiError(MsgDnsFailed, 422))
       ELSE IF existing > 0 /\ recs[existing].isVerified
       THEN Throw(ApiError(MsgAlreadyVerified, 400))
       ELSE [error |-> Undefined, records |-> verified.records,
             returned |-> verified.returned, created |-> verified.created]

\* verifyDomainMock: the error thrown (Undefined when it returns), the
\* store after the call, the position of the record returned (0 when it
\* throws) and whether the record was created by the call.
verifyDomainMock(recs, domain, token, now, id) ==
    LET normalized == trim(domain)
        Throw(e) == [error |-> Some(e), records |-> recs,
                     returned |-> 0, created |-> FALSE]
        existing == findDomainByName(recs, normalized)
        verified == verifyDomainRecord(recs, normalized, now, id)
    IN IF normalized = <<>>
       THEN Throw(ApiError(MsgMissingDomain, 400))
       ELSE IF token # DOMAIN_VERIFY_TOKEN
       THEN Throw(ApiError(MsgInvalidToken, 400))
       ELSE IF endsWith(normalized, SentinelSuffix)
       THEN Throw(ApiError(MsgDnsFailed, 422))
       ELSE IF existing > 0 /\ recs[existing].isVerified
       THEN Throw(ApiError(MsgAlreadyVerified, 409))
       ELSE [error |-> Undefined, records |-> verified.records,
             returned |-> verified.returned, created |-> verified.created]

----------------------------------------------------------------------------
\* The state machine: the seeded store and one action per exported operation

Ids(recs) == {recs[i].id : i \in 1..Len(recs)}

\* Ids a caller may pass: one of a stored record, or an unknown one.
CallerIds == Ids(records) \cup ExternalIds

Init ==
    /\ records = createInitialDomains
    /\ clock = 0
    /\ nextUid = 4
    /\ before = createInitialDomains
    /\ lastCall = [op |-> "createInitialDomains"]
    /\ thrown = {}
    /\ requests = NoRequests
    /\ queries = NoQueries
    /\ scanView = NoScanView
    /\ apiCall = NoApiCall
    /\ scanForm = NoScanForm
    /\ queryCache = [domains |-> Undefined, lastWrite |-> [by |-> "none"],
                     scansInvalidated |-> FALSE]
    /\ domainsList = DomainsListMounted
    /\ domainDetail = [pc |-> "idle"]

\* A call of verifyDomainMock({ domain, token }).
Verify ==
    \E domain \in VerifyNames, token \in Tokens :
        LET r == verifyDomainMock(records, domain, token, clock + 1, nextUid)
        IN /\ clock < MaxClock
           /\ clock' = clock + 1
           /\ records' = r.records
           /\ nextUid' = IF r.created THEN nextUid + 1 ELSE nextUid
           /\ before' = records
           /\ lastCall' = [op |-> "verifyDomainMock", domain |-> domain,
                           token |-> token, error |-> r.error,
                           returned |-> r.returned, created |-> r.created]
           /\ thrown' = thrown \cup r.error
           /\ UNCHANGED outsideStore

\* A call of updateDomainRecord(domainId, updates).
Rename ==
    \E domainId \in CallerIds,
       updates \in {Undefined} \cup {Some(n) : n \in RenameNames} :
        LET r == updateDomainRecord(records, domainId, updates)
        IN /\ clock < MaxClock
           /\ clock' = clock + 1
           /\ records' = r.records
           /\ before' = records
           /\ lastCall' = [op |-> "updateDomainRecord", domainId |-> domainId,
                           updates |-> updates, returned |-> r.returned]
           /\ UNCHANGED <<nextUid, thrown>>
           /\ UNCHANGED outsideStore

\* A call of upsertDomain(domain) with a record the caller built.
Upsert ==
    \E domainId \in CallerIds, name \in UpsertNames, verified \in BOOLEAN :
        LET domain == createDomainRecord(name, domainId, clock + 1, verified,
                                         0, Undefined)
        IN /\ clock < MaxClock
           /\ clock' = clock + 1
           /\ records' = upsertDomain(records, domain)
           /\ before' = records
           /\ lastCall' = [op |-> "upsertDomain", domain |-> domain]
           /\ UNCHANGED <<nextUid, thrown>>
           /\ UNCHANGED outsideStore

\* A call of removeDomainRecord(domainId).
Remove ==
    \E domainId \in CallerIds :
        LET r == removeDomainRecord(records, domainId)
        IN /\ clock < MaxClock
           /\ clock' = clock + 1
           /\ records' = r.records
           /\ before' = records
           /\ lastCall' = [op |-> "removeDomainRecord", domainId |-> domainId,
                           returned |-> r.returned]
           /\ UNCHANGED <<nextUid, thrown>>
           /\ UNCHANGED outsideStore

Next == Verify \/ Rename \/ Upsert \/ Remove

Spec == Init /\ [][Next]_vars

\* The seeded store under verifyDomainMock and removeDomainRecord calls only.
NextVerifyRemove == Verify \/ Remove

VerifyRemoveSpec == Init /\ [][NextVerifyRemove]_vars

\* The seeded store under verifyDomainMock, updateDomainRecord and
\* removeDomainRecord calls.
NextVerifyRenameRemove == Verify \/ Rename \/ Remove

VerifyRenameRemoveSpec == Init /\ [][NextVerifyRenameRemove]_vars

----------------------------------------------------------------------------
\* The mock handler of POST /api/domains/verify

\* The requests the handler serves at the same time.
Requests == {"r1", "r2"}

\* JSON values the domain field of a request body may hold.
JsonString(chars) == [type |-> "string", chars |-> chars]
JsonNumber == [type |-> "number", chars |-> <<>>]

\* Request bodies: each field may be missing.
BodyDomains ==
    {Undefined, Some(JsonNumber)}
        \cup {Some(JsonString(n)) : n \in {NewIo, NewIoPadded, TestDev, XInvalid}}
BodyTokens == {Undefined, Some(DOMAIN_VERIFY_TOKEN), Some("wrong-token")}

\* value ?? fallback
OrElse(value, fallback) == IF value = Undefined THEN fallback
                           ELSE CHOOSE v \in value : TRUE

\* What domain?.trim() throws when domain is not a string.
TypeError == [name |-> "TypeError",
              message |-> "domain.trim is not a function"]

\* error instanceof ApiError
IsApiError(error) == "status" \in DOMAIN error

\* The call verifyDomainMock({ domain: body?.domain ?? "", token: body?.token ?? "" })
\* of the handler, whose body may carry a domain that is no string.
callVerifyDomainMock(recs, body, now, id) ==
    LET domain == OrElse(body.domain, JsonString(EmptyName))
        token == OrElse(body.token, "")
    IN IF domain.type # "string"
       THEN [error |-> Some(TypeError), records |-> recs, returned |-> 0,
             created |-> FALSE]
       ELSE verifyDomainMock(recs, domain.chars, token, now, id)

\* The fields of a domain record that may be undefined.
OptionalFields == {"verified_at", "lastScan"}

\* JSON.stringify of a domain record: undefined fields are left out.
toJSON(record) ==
    [f \in {g \in DOMAIN record :
                ~(g \in OptionalFields /\ record[g] = Undefined)} |->
        IF f \in OptionalFields THEN CHOOSE v \in record[f] : TRUE
        ELSE record[f]]

MsgHandlerFailed == "Verification failed. Please try again."

\* The message the handler reads off a caught ApiError.
messageOfApiError(error) ==
    IF "data" \in DOMAIN error /\ "message" \in DOMAIN error.data
    THEN error.data.message
    ELSE error.message

\* Mutant: every failure is answered with status 500 and the fixed message.
handlerResponse_Always500(recs, error, returnedId) ==
    IF error = Undefined
    THEN [status |-> 200,
          body |-> toJSON(recs[findDomainById(recs, returnedId)])]
    ELSE [status |-> 500, body |-> [message |-> MsgHandlerFailed]]

\* The response of the handler to what its verifyDomainMock call threw
\* (error) or returned (the record of id returnedId, which is serialised as
\* the store holds it at that moment).
handlerResponse(recs, error, returnedId) ==
    IF error = Undefined
    THEN [status |-> 200,
          body |-> toJSON(recs[findDomainById(recs, returnedId)])]
    ELSE LET caught == CHOOSE e \in error : TRUE
         IN IF IsApiError(caught)
            THEN [status |-> caught.status,
                  body |-> [message |-> messageOfApiError(caught)]]
            ELSE [status |-> 500, body |-> [message |-> MsgHandlerFailed]]

\* The response field of a request the handler has not answered yet.
NoResponse == [status |-> 0, body |-> [message |-> ""]]

\* The requests with one more, or one changed.
WithRequest(r, request) ==
    [x \in DOMAIN requests \cup {r} |-> IF x = r THEN request ELSE requests[x]]

At(r, pc) == r \in DOMAIN requests /\ requests[r].pc = pc

\* A request arrives and the handler starts its random delay; concurrent
\* records whether another request was still unanswered at that moment.
Receive(r) ==
    \E domain \in BodyDomains, token \in BodyTokens :
        /\ r \notin DOMAIN requests
        /\ requests' = WithRequest(r,
               [pc |-> "delay",
                body |-> [domain |-> domain, token |-> token],
                concurrent |-> \E s \in DOMAIN requests :
                                   requests[s].pc # "done",
                error |-> Undefined,
                returnedId |-> 0,
                response |-> NoResponse])
        /\ UNCHANGED <<records, clock, nextUid, before, lastCall, thrown,
                       queries, scanView, apiCall, scanForm, queryCache,
                       domainsList, domainDetail>>

\* The delay of the request is over; the handler awaits request.json().
DelayElapsed(r) ==
    /\ At(r, "delay")
    /\ requests' = WithRequest(r, [requests[r] EXCEPT !.pc = "json"])
    /\ UNCHANGED <<records, clock, nextUid, before, lastCall, thrown,
                   queries, scanView, apiCall, scanForm, queryCache,
                   domainsList, domainDetail>>

\* The body is parsed and the handler calls verifyDomainMock, which runs to
\* its return or throw without yielding; the handler awaits its promise.
CallVerify(r) ==
    LET outcome == callVerifyDomainMock(records, requests[r].body, clock + 1,
                                        nextUid)
    IN /\ At(r, "json")
       /\ clock' = clock + 1
       /\ records' = outcome.records
       /\ nextUid' = IF outcome.created THEN nextUid + 1 ELSE nextUid
       /\ before' = records
       /\ lastCall' = [op |-> "POST /domains/verify",
                       body |-> requests[r].body,
                       error |-> outcome.error,
                       returned |-> outcome.returned,
                       created |-> outcome.created]
       /\ thrown' = thrown \cup {e \in outcome.error : IsApiError(e)}
       /\ requests' = WithRequest(r, [requests[r] EXCEPT
                                          !.pc = "settled",
                                          !.error = outcome.error,
                                          !.returnedId =
                                              IF outcome.error = Undefined
                                              THEN outcome.records[outcome.returned].id
                                              ELSE 0])
       /\ UNCHANGED <<queries, scanView, apiCall, scanForm, queryCache,
                      domainsList, domainDetail>>

\* The handler resumes after the call and answers.
Respond(r) ==
    /\ At(r, "settled")
    /\ requests' = WithRequest(r, [requests[r] EXCEPT
                                       !.pc = "done",
                                       !.response =
                                           handlerResponse(records,
                                                           requests[r].error,
                                                           requests[r].returnedId)])
    /\ UNCHANGED <<records, clock, nextUid, before, lastCall, thrown,
                   queries, scanView, apiCall, scanForm, queryCache,
                   domainsList, domainDetail>>

ReceiveAny == \E r \in Requests : Receive(r)
DelayElapsedAny == \E r \in Requests : DelayElapsed(r)
CallVerifyAny == \E r \in Requests : CallVerify(r)
RespondAny == \E r \in Requests : Respond(r)

NextHandler == ReceiveAny \/ DelayElapsedAny \/ CallVerifyAny \/ RespondAny

\* The seeded store behind the handler, serving the requests of Requests.
HandlerSpec == Init /\ [][NextHandler]_vars

----------------------------------------------------------------------------
\* The queries and mutations of the domain views

\* The queries and mutations DomainsList and DomainDetail configure.
ViewQueries ==
    {"domainQuery", "domainsQuery", "runVerifyDomain", "updateDomainMutation"}

\* Mutant: no query sets a retry option.
retryOption_None(q) == Undefined

\* The retry option a query or mutation is configured with.
retryOption(q) == IF q = "domainQuery" THEN Some(1) ELSE Undefined

\* The retries of a query client for a query that sets no retry option.
DefaultRetry == 0

\* How many times the failed request of q is issued again.
retries(q) == OrElse(retryOption(q), DefaultRetry)

\* The queries with q in a new state.
WithQuery(q, state) ==
    [x \in DOMAIN queries \cup {q} |-> IF x = q THEN state ELSE queries[x]]

IsPending(q) == q \in DOMAIN queries /\ queries[q].status = "pending"

\* The view runs q (again): its first request is issued.
Fetch(q) ==
    /\ ~IsPending(q)
    /\ queries' = WithQuery(q, [status |-> "pending", failureCount |-> 0,
                                attempts |-> 1])
    /\ UNCHANGED <<records, clock, nextUid, before, lastCall, thrown,
                   requests, scanView, apiCall, scanForm, queryCache,
                   domainsList, domainDetail>>

\* The request of q fails: it is issued again while retries are left,
\* otherwise the error is reported to the view.
AttemptFails(q) ==
    /\ IsPending(q)
    /\ queries' = WithQuery(q,
           IF queries[q].failureCount < retries(q)
           THEN [queries[q] EXCEPT !.failureCount = @ + 1, !.attempts = @ + 1]
           ELSE [queries[q] EXCEPT !.failureCount = @ + 1,
                                   !.status = "error"])
    /\ UNCHANGED <<records, clock, nextUid, before, lastCall, thrown,
                   requests, scanView, apiCall, scanForm, queryCache,
                   domainsList, domainDetail>>

\* The request of q succeeds.
AttemptSucceeds(q) ==
    /\ IsPending(q)
    /\ queries' = WithQuery(q, [queries[q] EXCEPT !.status = "success"])
    /\ UNCHANGED <<records, clock, nextUid, before, lastCall, thrown,
                   requests, scanView, apiCall, scanForm, queryCache,
                   domainsList, domainDetail>>

FetchAny == \E q \in ViewQueries : Fetch(q)
AttemptFailsAny == \E q \in ViewQueries : AttemptFails(q)
AttemptSucceedsAny == \E q \in ViewQueries : AttemptSucceeds(q)

NextQuery == FetchAny \/ AttemptFailsAny \/ AttemptSucceedsAny

\* The queries and mutations of the domain views under failing requests.
QuerySpec == Init /\ [][NextQuery]_vars

----------------------------------------------------------------------------
\* The ScanDetail view

\* Values of the route parameter taskId.
TaskIdParams == {Undefined, Some("task_1"), Some("task_2")}

\* taskId || "task_1"
OrTask1(taskId) == IF taskId = Undefined \/ taskId = Some("") THEN "task_1"
                   ELSE CHOOSE v \in taskId : TRUE

\* The mock scan the effect sets.
mockScan(taskId) == [id |-> OrTask1(taskId), target_status |-> "RUNNING",
                     completed_at |-> Undefined]

\* The two findings set when the scan completes.
mockResults(taskId) ==
    <<[id |-> "r1", task_id |-> OrTask1(taskId), scan_type |-> "XSS",
       severity |-> "high"],
      [id |-> "r2", task_id |-> OrTask1(taskId), scan_type |-> "Headers",
       severity |-> "medium"]>>

\* Mutant: at 100 the updater returns 100 and does nothing else.
progressUpdater_NeverCompletes(prev) ==
    IF prev >= 100 THEN [progress |-> 100, completes |-> FALSE]
    ELSE [progress |-> prev + 10, completes |-> FALSE]

\* Mutant: the scan completes only once progress is above 100.
progressUpdater_Past100(prev) ==
    IF prev > 100 THEN [progress |-> 100, completes |-> TRUE]
    ELSE [progress |-> prev + 10, completes |-> FALSE]

\* The updater the interval passes to setProgress.
progressUpdater(prev) ==
    IF prev >= 100 THEN [progress |-> 100, completes |-> TRUE]
    ELSE [progress |-> prev + 10, completes |-> FALSE]

\* The view is rendered for the first time; its effect has yet to run.
MountScanDetail ==
    \E taskId \in TaskIdParams :
        /\ ~scanView.mounted
        /\ scanView' = [mounted |-> TRUE, taskId |-> taskId,
                        effectPending |-> TRUE, scan |-> Undefined,
                        results |-> <<>>, aiSummary |-> "", progress |-> 0,
                        interval |-> Undefined, taskIdChanged |-> FALSE,
                        ticks |-> 0]
        /\ UNCHANGED <<records, clock, nextUid, before, lastCall, thrown,
                       requests, queries, apiCall, scanForm, queryCache,
                       domainsList, domainDetail>>

\* The route parameter changes while the view stays mounted.
ChangeTaskId ==
    \E taskId \in TaskIdParams :
        /\ scanView.mounted
        /\ taskId # scanView.taskId
        /\ scanView' = [scanView EXCEPT !.taskId = taskId,
                                        !.effectPending = TRUE,
                                        !.taskIdChanged = TRUE]
        /\ UNCHANGED <<records, clock, nextUid, before, lastCall, thrown,
                       requests, queries, apiCall, scanForm, queryCache,
                       domainsList, domainDetail>>

\* The effect runs: the cleanup of its last run clears that run's interval,
\* the mock scan is set and a new interval started; ticks counts the ticks
\* that raised progress since.
RunEffect ==
    /\ scanView.mounted
    /\ scanView.effectPending
    /\ scanView' = [scanView EXCEPT !.effectPending = FALSE,
                                    !.scan = Some(mockScan(scanView.taskId)),
                                    !.interval = Some(scanView.taskId),
                                    !.ticks = 0]
    /\ UNCHANGED <<records, clock, nextUid, before, lastCall, thrown,
                   requests, queries, apiCall, scanForm, queryCache,
                   domainsList, domainDetail>>

\* The interval fires; it holds the taskId of the effect run that started it.
IntervalTick ==
    \E taskId \in scanView.interval :
        LET updated == progressUpdater(scanView.progress)
        IN /\ scanView.mounted
           /\ scanView' =
                IF updated.completes
                THEN [scanView EXCEPT
                        !.interval = Undefined,
                        !.scan = {[s EXCEPT !.target_status = "COMPLETED",
                                            !.completed_at = Some(clock)] :
                                  s \in scanView.scan},
                        !.results = mockResults(taskId),
                        !.aiSummary = "This scan identified 2 security issues",
                        !.progress = updated.progress]
                ELSE [scanView EXCEPT
                        !.progress = updated.progress,
                        !.ticks = IF updated.progress # scanView.progress
                                  THEN @ + 1 ELSE @]
           /\ UNCHANGED <<records, clock, nextUid, before, lastCall, thrown,
                          requests, queries, apiCall, scanForm, queryCache,
                          domainsList, domainDetail>>

\* The view is unmounted: the cleanup clears the interval, the state is gone.
UnmountScanDetail ==
    /\ scanView.mounted
    /\ scanView' = NoScanView
    /\ UNCHANGED <<records, clock, nextUid, before, lastCall, thrown,
                   requests, queries, apiCall, scanForm, queryCache,
                   domainsList, domainDetail>>

NextScan ==
    MountScanDetail \/ ChangeTaskId \/ RunEffect \/ IntervalTick
        \/ UnmountScanDetail

\* The ScanDetail view under mounts, route changes, timer ticks and unmounts.
ScanSpec == Init /\ [][NextScan]_vars

\* The same, with a timer that keeps firing while its interval is set and
\* effects that run once they are pending.
ScanFairSpec == ScanSpec /\ WF_vars(IntervalTick) /\ WF_vars(RunEffect)

----------------------------------------------------------------------------
\* The domains API functions listDomains and verifyDomain

ApiFunctions == {"listDomains", "verifyDomain"}

\* What fetch throws when the request cannot be made, and another Error.
FetchTypeError == [name |-> "TypeError", message |-> "Failed to fetch"]
OtherError == [name |-> "Error", message |-> "Unexpected token"]

\* error instanceof TypeError
IsTypeError(error) == "name" \in DOMAIN error /\ error.name = "TypeError"

\* Errors apiRequest may throw.
RequestErrors ==
    {ApiError("Not Found", 404), ApiError("Internal Server Error", 500),
     ApiError(MsgAlreadyVerified, 409), FetchTypeError, OtherError}

\* Payloads of verifyDomain.
ApiPayloads ==
    {[domain |-> d, token |-> t] :
        d \in {NewIo, XInvalid}, t \in {DOMAIN_VERIFY_TOKEN, "wrong-token"}}

\* Mutant: every ApiError falls back to the mock.
shouldUseMockFallback_AnyApiError(useMocks, hasWindow, error) ==
    IF ~useMocks THEN FALSE
    ELSE IF ~hasWindow THEN TRUE
    ELSE IF IsApiError(error) THEN TRUE
    ELSE IsTypeError(error)

\* shouldUseMockFallback(error), with env.useMocks and whether
\* typeof window !== "undefined".
shouldUseMockFallback(useMocks, hasWindow, error) ==
    IF ~useMocks THEN FALSE
    ELSE IF ~hasWindow THEN TRUE
    ELSE IF IsApiError(error) THEN error.status = 404
    ELSE IsTypeError(error)

\* listDomains() or verifyDomain(payload) is called: without a window and
\* with mocks enabled the mock module is loaded at once, otherwise the
\* request is made.
CallApi ==
    \E fn \in ApiFunctions, useMocks \in BOOLEAN, hasWindow \in BOOLEAN,
       payload \in ApiPayloads :
        /\ apiCall.pc = "idle"
        /\ apiCall' = [NoApiCall EXCEPT
                         !.pc = IF useMocks /\ ~hasWindow THEN "mock"
                                ELSE "request",
                         !.fn = fn, !.useMocks = useMocks,
                         !.hasWindow = hasWindow, !.payload = payload]
        /\ before' = records
        /\ lastCall' = [op |-> fn]
        /\ UNCHANGED <<records, clock, nextUid, thrown, requests, queries,
                       scanView, scanForm, queryCache, domainsList,
                       domainDetail>>

\* apiRequest resolves: the function returns what the server answered.
RequestSucceeds ==
    /\ apiCall.pc = "request"
    /\ apiCall' = [apiCall EXCEPT !.pc = "done", !.answeredBy = "server"]
    /\ UNCHANGED <<records, clock, nextUid, before, lastCall, thrown,
                   requests, queries, scanView, scanForm, queryCache,
                   domainsList, domainDetail>>

\* apiRequest throws: the mock module is loaded or the error rethrown.
RequestFails ==
    \E error \in RequestErrors :
        /\ apiCall.pc = "request"
        /\ apiCall' =
             IF shouldUseMockFallback(apiCall.useMocks, apiCall.hasWindow,
                                      error)
             THEN [apiCall EXCEPT !.pc = "mock",
                                  !.requestError = Some(error)]
             ELSE [apiCall EXCEPT !.pc = "done",
                                  !.requestError = Some(error),
                                  !.thrownError = Some(error)]
        /\ UNCHANGED <<records, clock, nextUid, before, lastCall, thrown,
                       requests, queries, scanView, scanForm, queryCache,
                       domainsList, domainDetail>>

\* The mock module answers: listDomainsMock() or verifyDomainMock(payload).
MockAnswers ==
    LET outcome == verifyDomainMock(records, apiCall.payload.domain,
                                    apiCall.payload.token, clock + 1, nextUid)
    IN /\ apiCall.pc = "mock"
       /\ IF apiCall.fn = "listDomains"
          THEN /\ apiCall' = [apiCall EXCEPT !.pc = "done",
                                             !.answeredBy = "mock"]
               /\ UNCHANGED <<records, clock, nextUid, thrown>>
          ELSE /\ clock < MaxClock
               /\ clock' = clock + 1
               /\ records' = outcome.records
               /\ nextUid' = IF outcome.created THEN nextUid + 1 ELSE nextUid
               /\ thrown' = thrown \cup outcome.error
               /\ apiCall' = [apiCall EXCEPT !.pc = "done",
                                             !.answeredBy = "mock",
                                             !.thrownError = outcome.error]
       /\ UNCHANGED <<before, lastCall, requests, queries, scanView,
                      scanForm, queryCache, domainsList, domainDetail>>

\* The caller has the answer; the next call may start.
ApiCallReturns ==
    /\ apiCall.pc = "done"
    /\ apiCall' = NoApiCall
    /\ UNCHANGED <<records, clock, nextUid, before, lastCall, thrown,
                   requests, queries, scanView, scanForm, queryCache,
                   domainsList, domainDetail>>

NextApi ==
    CallApi \/ RequestSucceeds \/ RequestFails \/ MockAnswers
        \/ ApiCallReturns

\* Calls of listDomains and verifyDomain, one at a time, over the seeded store.
ApiSpec == Init /\ [][NextApi]_vars

----------------------------------------------------------------------------
\* The NewScan form

\* The URLs typed into the target field; z.string().url() accepts the second.
TargetUrls == {"", "https://example.com/login"}
IsUrl(s) == s = "https://example.com/login"

\* The ids of DOMAIN_OPTIONS and the values of the domain query parameter.
DomainOptionIds == {"dom_1", "dom_2"}
PreselectedDomains == {Undefined, Some("dom_1")}

\* Scan defaults the settings API may answer with.
ScanDefaultsAnswers ==
    {[scope |-> [sqli |-> FALSE, xss |-> FALSE, openRedirect |-> FALSE,
                 headers |-> TRUE],
      timeout |-> 30, evidence |-> "minimal", autoOpenReport |-> FALSE,
      ai |-> FALSE],
     [scope |-> [sqli |-> FALSE, xss |-> FALSE, openRedirect |-> FALSE,
                 headers |-> FALSE],
      timeout |-> 120, evidence |-> "verbose", autoOpenReport |-> TRUE,
      ai |-> TRUE]}

\* The defaultValues of useForm.
formDefaultValues(preselectedDomain) ==
    [domain_id |-> OrElse(preselectedDomain, ""),
     target_url |-> "",
     checks |-> [sqli |-> TRUE, xss |-> TRUE, openRedirect |-> TRUE,
                 headers |-> TRUE],
     timeout |-> 60,
     evidence |-> "normal",
     autoOpenReport |-> TRUE,
     ai |-> TRUE,
     authorization |-> FALSE]

\* Mutant: the defaults are laid over the form's initial values.
mapDefaultsToForm_OverInitialValues(defaults, current) ==
    IF defaults = Undefined THEN current
    ELSE LET d == CHOOSE x \in defaults : TRUE
         IN [formDefaultValues(Undefined) EXCEPT
               !.checks = d.scope, !.timeout = d.timeout,
               !.evidence = d.evidence,
               !.autoOpenReport = d.autoOpenReport, !.ai = d.ai]

\* mapDefaultsToForm(defaults, current)
mapDefaultsToForm(defaults, current) ==
    IF defaults = Undefined THEN current
    ELSE LET d == CHOOSE x \in defaults : TRUE
         IN [current EXCEPT
               !.checks = [sqli |-> d.scope.sqli, xss |-> d.scope.xss,
                           openRedirect |-> d.scope.openRedirect,
                           headers |-> d.scope.headers],
               !.timeout = d.timeout,
               !.evidence = d.evidence,
               !.autoOpenReport = d.autoOpenReport,
               !.ai = d.ai]

\* The fields scanSchema rejects.
scanSchemaIssues(values) ==
    {f \in {"domain_id"} : values.domain_id = ""}
        \cup {f \in {"target_url"} : ~IsUrl(values.target_url)}
        \cup {f \in {"checks"} :
                 \A c \in DOMAIN values.checks : ~values.checks[c]}
        \cup {f \in {"timeout"} : values.timeout < 10 \/ values.timeout > 120}
        \cup {f \in {"evidence"} :
                 values.evidence \notin {"minimal", "normal", "verbose"}}
        \cup {f \in {"authorization"} : values.authorization # TRUE}

OnNewScan == scanForm.page = "NewScan"

\* The view is opened: useForm takes its default values.
OpenNewScan ==
    \E preselectedDomain \in PreselectedDomains :
        /\ scanForm.page = "none"
        /\ scanForm' = [NoScanForm EXCEPT
                          !.page = "NewScan",
                          !.values = formDefaultValues(preselectedDomain)]
        /\ UNCHANGED <<records, clock, nextUid, before, lastCall, thrown,
                       requests, queries, scanView, apiCall, queryCache,
                       domainsList, domainDetail>>

\* The user edits the domain, the target URL, the authorization checkbox or
\* one of the checks.
EditScanForm ==
    /\ OnNewScan
    /\ \/ \E id \in DomainOptionIds :
             scanForm' = [scanForm EXCEPT !.values.domain_id = id]
       \/ \E url \in TargetUrls :
             scanForm' = [scanForm EXCEPT !.values.target_url = url]
       \/ scanForm' = [scanForm EXCEPT !.values.authorization = ~@]
       \/ scanForm' = [scanForm EXCEPT !.values.checks.sqli = ~@]
    /\ UNCHANGED <<records, clock, nextUid, before, lastCall, thrown,
                   requests, queries, scanView, apiCall, queryCache,
                   domainsList, domainDetail>>

\* defaultsQuery gets new data (first load, or a reload with another answer).
ScanDefaultsLoaded ==
    \E defaults \in ScanDefaultsAnswers :
        /\ OnNewScan
        /\ scanForm.defaultsData # Some(defaults)
        /\ scanForm' = [scanForm EXCEPT !.defaultsData = Some(defaults),
                                        !.effectPending = TRUE]
        /\ UNCHANGED <<records, clock, nextUid, before, lastCall, thrown,
                       requests, queries, scanView, apiCall, queryCache,
                       domainsList, domainDetail>>

\* The effect on defaultsQuery.data runs:
\* form.reset(mapDefaultsToForm(defaultsQuery.data, form.getValues())).
ResetFormToDefaults ==
    /\ OnNewScan
    /\ scanForm.effectPending
    /\ scanForm' = [scanForm EXCEPT
                      !.effectPending = FALSE,
                      !.values = mapDefaultsToForm(scanForm.defaultsData,
                                                   scanForm.values)]
    /\ UNCHANGED <<records, clock, nextUid, before, lastCall, thrown,
                   requests, queries, scanView, apiCall, queryCache,
                   domainsList, domainDetail>>

\* The form is submitted: handleSubmit validates and calls onSubmit when
\* scanSchema has no issue; submitted keeps the values onSubmit was given.
SubmitScanForm ==
    /\ OnNewScan
    /\ ~scanForm.isSubmitting
    /\ scanForm' =
         IF scanSchemaIssues(scanForm.values) = {}
         THEN [scanForm EXCEPT !.errors = {}, !.isSubmitting = TRUE,
                               !.submitted = Some(scanForm.values)]
         ELSE [scanForm EXCEPT !.errors = scanSchemaIssues(scanForm.values)]
    /\ UNCHANGED <<records, clock, nextUid, before, lastCall, thrown,
                   requests, queries, scanView, apiCall, queryCache,
                   domainsList, domainDetail>>

\* The 900 ms of onSubmit are over: the view navigates to the scan page.
ScanStarts ==
    /\ OnNewScan
    /\ scanForm.isSubmitting
    /\ scanForm' = [scanForm EXCEPT !.page = "scan page",
                                    !.isSubmitting = FALSE]
    /\ UNCHANGED <<records, clock, nextUid, before, lastCall, thrown,
                   requests, queries, scanView, apiCall, queryCache,
                   domainsList, domainDetail>>

NextForm ==
    OpenNewScan \/ EditScanForm \/ ScanDefaultsLoaded \/ ResetFormToDefaults
        \/ SubmitScanForm \/ ScanStarts

\* The NewScan view under edits, loads of the scan defaults and submissions.
FormSpec == Init /\ [][NextForm]_vars

----------------------------------------------------------------------------
\* The DomainsList view, its add-domain modal and the ["domains"] query data

\* What the views and the query client leave alone, the store apart.
outsideViews == <<requests, queries, scanView, apiCall, scanForm>>

\* The store's history variables, which only the store's callers write.
storeHistory == <<before, lastCall, thrown>>

\* "add", the value of the modal parameter that opens the modal.
ADD == <<"a", "d", "d">>

\* A string JavaScript takes as true: defined and not empty.
Truthy(value) == value # Undefined /\ value # Some(<<>>)

INVALID_DOMAIN_MESSAGE == "Enter a valid domain (e.g., example.com)."

\* domainsQuery.data ?? [], and the (current = []) of the cache updaters.
OrEmptyList(data) == IF data = Undefined THEN <<>> ELSE CHOOSE d \in data : TRUE

\* isPending of the verify mutation of DomainsList.
isVerifyingDomain(view) == \E m \in view.verifications : m.attached

\* resetVerifyDomain(): the observer lets go of its mutation; a mutation that
\* has not settled keeps the callbacks of the last render, which saw the
\* search parameters of that render.
resetVerifyDomain(view) ==
    [view EXCEPT
       !.verifications =
           {IF m.attached
            THEN [m EXCEPT !.attached = FALSE,
                           !.seenModalParam = view.modalParam]
            ELSE m : m \in @}]

\* resetModalState(prefillDomain, initialStep)
resetModalState(view, prefillDomain, initialStep) ==
    [resetVerifyDomain(view) EXCEPT
       !.domainInput = OrElse(prefillDomain, <<>>),
       !.acknowledged = FALSE,
       !.errorMessage = Undefined,
       !.modalStep = initialStep]

\* The step the modal opens at for a prefilled domain.

\* openModal(prefillDomain); setSearchParams starts a navigation.
openModal(view, prefillDomain) ==
    [resetModalState(view, prefillDomain,
                     IF Truthy(prefillDomain) THEN "dns" ELSE "domain") EXCEPT
       !.isModalOpen = TRUE,
       !.pendingParams =
           Some([modal |-> Some(ADD),
                 domain |-> IF Truthy(prefillDomain) THEN prefillDomain
                            ELSE Undefined])]

\* closeModal() as a render defined it whose searchParams had the modal
\* parameter seenModalParam.
closeModal(view, seenModalParam) ==
    LET closed == resetModalState([view EXCEPT !.isModalOpen = FALSE],
                                  Undefined, "domain")
    IN IF Truthy(seenModalParam)
       THEN [closed EXCEPT !.pendingParams =
                 Some([modal |-> Undefined, domain |-> Undefined])]
       ELSE closed

\* Mutant: the verify button is disabled while a verification is pending only.
verifySubmitDisabled_PendingOnly(acknowledged, isSubmitting) == isSubmitting

\* disabled={!acknowledged || isSubmitting} of the DNS step's submit button.
verifySubmitDisabled(acknowledged, isSubmitting) ==
    ~acknowledged \/ isSubmitting

\* Mutant: only entries with the id of the verified domain are filtered out.
prependVerified_FilterById(current, domain) ==
    <<domain>> \o SelectSeq(OrEmptyList(current),
                            LAMBDA existing : existing.id # domain.id)

\* The updater both verify mutations hand to setQueryData(["domains"], ...).
prependVerified(current, domain) ==
    <<domain>> \o SelectSeq(OrEmptyList(current),
                            LAMBDA existing :
                                /\ existing.id # domain.id
                                /\ existing.domain_name # domain.domain_name)

DomainStep == domainsList.isModalOpen /\ domainsList.modalStep = "domain"
DnsStep == domainsList.isModalOpen /\ domainsList.modalStep = "dns"

\* "Add domain" is clicked (openModal()), or "Verify" in the row of a cached
\* domain that is not verified (openModal(domain.domain_name)); the modal
\* covers both buttons while it is open.
ClickAddDomain ==
    /\ ~domainsList.isModalOpen
    /\ \E prefillDomain \in
            {Undefined} \cup
            {Some(d.domain_name) : d \in
                {e \in {OrEmptyList(queryCache.domains)[i] :
                           i \in 1..Len(OrEmptyList(queryCache.domains))} :
                    ~e.isVerified}} :
          domainsList' = openModal(domainsList, prefillDomain)
    /\ UNCHANGED <<records, clock, nextUid, storeHistory, outsideViews,
                   queryCache, domainDetail>>

\* Cancel in either step: closeModal() of the current render.
ClickCancel ==
    /\ domainsList.isModalOpen
    /\ domainsList' = closeModal(domainsList, domainsList.modalParam)
    /\ UNCHANGED <<records, clock, nextUid, storeHistory, outsideViews,
                   queryCache, domainDetail>>

\* onDomainChange(value)
TypeDomain ==
    \E value \in {XInvalid} :
        /\ DomainStep
        /\ domainsList' = [domainsList EXCEPT !.domainInput = value,
                                              !.errorMessage = Undefined]
        /\ UNCHANGED <<records, clock, nextUid, storeHistory, outsideViews,
                       queryCache, domainDetail>>

\* The domain step's form is submitted: handleDomainContinue.
SubmitDomainStep ==
    LET value == trim(domainsList.domainInput)
        normalized == toLowerCase(value)
        domains == OrEmptyList(queryCache.domains)
        existing == FindIndex({i \in 1..Len(domains) :
                        toLowerCase(domains[i].domain_name) = normalized})
    IN /\ DomainStep
       /\ Len(trim(domainsList.domainInput)) # 0
       /\ \E matches \in BOOLEAN :
          domainsList' =
            IF value = <<>>
            THEN [domainsList EXCEPT !.errorMessage = Some("Please enter a domain.")]
            ELSE IF ~matches
            THEN [domainsList EXCEPT
                    !.errorMessage = Some(INVALID_DOMAIN_MESSAGE)]
            ELSE IF existing > 0 /\ domains[existing].isVerified
            THEN [domainsList EXCEPT
                    !.errorMessage = Some("This domain is already verified.")]
            ELSE [resetVerifyDomain(domainsList) EXCEPT
                    !.domainInput = normalized,
                    !.errorMessage = Undefined,
                    !.acknowledged = FALSE,
                    !.modalStep = "dns"]
       /\ UNCHANGED <<records, clock, nextUid, storeHistory, outsideViews,
                      queryCache, domainDetail>>

\* Back in the DNS step: handleBackToDomainStep.
ClickBack ==
    /\ DnsStep
    /\ domainsList' = [resetVerifyDomain(domainsList) EXCEPT
                         !.modalStep = "domain",
                         !.acknowledged = FALSE,
                         !.errorMessage = Undefined]
    /\ UNCHANGED <<records, clock, nextUid, storeHistory, outsideViews,
                   queryCache, domainDetail>>

\* onAcknowledgedChange(event.target.checked)
ToggleAcknowledged ==
    /\ DnsStep
    /\ domainsList' = [domainsList EXCEPT !.acknowledged = ~@]
    /\ UNCHANGED <<records, clock, nextUid, storeHistory, outsideViews,
                   queryCache, domainDetail>>

\* The DNS step's form is submitted: handleVerifyDomain, which calls
\* runVerifyDomain for a name that passes its checks.
SubmitDnsStep ==
    LET value == trim(domainsList.domainInput)
        normalized == toLowerCase(value)
        mutation == [domain |-> normalized, token |-> DOMAIN_VERIFY_TOKEN,
                     attached |-> TRUE, seenModalParam |-> Undefined]
    IN /\ DnsStep
       /\ ~verifySubmitDisabled(domainsList.acknowledged,
                                isVerifyingDomain(domainsList))
       /\ \E matches \in BOOLEAN :
          domainsList' =
            IF value = <<>>
            THEN [domainsList EXCEPT !.errorMessage = Some("Please enter a domain.")]
            ELSE IF ~matches
            THEN [domainsList EXCEPT
                    !.errorMessage = Some(INVALID_DOMAIN_MESSAGE)]
            ELSE [domainsList EXCEPT
                    !.domainInput = normalized,
                    !.errorMessage = Undefined,
                    !.verifications = @ \cup {mutation}]
       /\ UNCHANGED <<records, clock, nextUid, storeHistory, outsideViews,
                      queryCache, domainDetail>>

\* The navigation setSearchParams started reaches the view's searchParams.
ApplyNavigation ==
    /\ domainsList.pendingParams # Undefined
    /\ LET params == CHOOSE p \in domainsList.pendingParams : TRUE
       IN domainsList' = [domainsList EXCEPT !.modalParam = params.modal,
                                             !.domainParam = params.domain,
                                             !.pendingParams = Undefined]
    /\ UNCHANGED <<records, clock, nextUid, storeHistory, outsideViews,
                   queryCache, domainDetail>>

\* The URL changes from outside the view (history, a link, the address bar).
ExternalNavigation ==
    \E url \in {[modal |-> Undefined, domain |-> Undefined],
               [modal |-> Some(ADD), domain |-> Undefined],
               [modal |-> Some(ADD), domain |-> Some(StagingMyappIo)]} :
        /\ url # [modal |-> domainsList.modalParam,
                  domain |-> domainsList.domainParam]
        /\ domainsList' = [domainsList EXCEPT !.modalParam = url.modal,
                                              !.domainParam = url.domain]
        /\ UNCHANGED <<records, clock, nextUid, storeHistory, outsideViews,
                       queryCache, domainDetail>>

\* The effect on [modalParam, domainPrefillParam, isModalOpen] takes one of
\* its branches.
SyncModalWithUrl ==
    /\ \/ /\ domainsList.modalParam = Some(ADD)
          /\ ~domainsList.isModalOpen
          /\ domainsList' =
               [resetModalState(domainsList, domainsList.domainParam,
                                IF Truthy(domainsList.domainParam)
                                THEN "dns" ELSE "domain")
                  EXCEPT !.isModalOpen = TRUE]
       \/ /\ domainsList.modalParam # Some(ADD)
          /\ domainsList.isModalOpen
          /\ domainsList' =
               resetModalState([domainsList EXCEPT !.isModalOpen = FALSE],
                               Undefined, "domain")
    /\ UNCHANGED <<records, clock, nextUid, storeHistory, outsideViews,
                   queryCache, domainDetail>>

\* domainsQuery fetches: listDomains answers with the store's records.
FetchDomains ==
    LET listed == [i \in 1..Len(records) |-> toJSON(records[i])]
    IN /\ queryCache.domains # Some(listed)
       /\ queryCache' = [queryCache EXCEPT
                           !.domains = Some(listed),
                           !.lastWrite = [by |-> "fetch"]]
       /\ UNCHANGED <<records, clock, nextUid, storeHistory, outsideViews,
                      domainsList, domainDetail>>

\* Another session renames a domain: updateDomainRecord(domainId, updates).
RenameElsewhere ==
    LET r == updateDomainRecord(records, 3, Some(NewIo))
    IN /\ clock < MaxClock
       /\ r.records # records
       /\ clock' = clock + 1
       /\ records' = r.records
       /\ UNCHANGED <<nextUid, storeHistory, outsideStore>>

\* verifyDomain(payload) of a mutation of DomainsList is answered out of the
\* store, and the mutation calls the callbacks it holds: onSuccess
\* (setQueryData, toast, closeModal) with the verified record, or onError
\* (setErrorMessage) with the ApiError thrown. An attached mutation holds the
\* callbacks of the current render. The store reads the clock when it writes.
VerifySettles ==
    \E m \in domainsList.verifications :
        LET outcome == verifyDomainMock(records, m.domain, m.token,
                                        clock + 1, nextUid)
            seen == IF m.attached THEN domainsList.modalParam
                    ELSE m.seenModalParam
            settled == [domainsList EXCEPT
                          !.verifications = @ \ {m}]
        IN IF outcome.error = Undefined
           THEN LET domain == toJSON(outcome.records[outcome.returned])
                IN /\ clock < MaxClock
                   /\ clock' = clock + 1
                   /\ records' = outcome.records
                   /\ nextUid' = IF outcome.created THEN nextUid + 1
                                 ELSE nextUid
                   /\ queryCache' =
                        [queryCache EXCEPT
                           !.domains = Some(prependVerified(@, domain)),
                           !.lastWrite =
                               [by |-> "verify", view |-> "DomainsList",
                                domain |-> domain,
                                previous |-> queryCache.domains]]
                   /\ domainsList' =
                        closeModal([settled EXCEPT
                                      !.toast =
                                          Some([kind |-> "success",
                                                text |-> "Domain verified",
                                                about |-> <<>>])],
                                   seen)
                   /\ UNCHANGED <<storeHistory, outsideViews, domainDetail>>
           ELSE LET error == CHOOSE e \in outcome.error : TRUE
                    message ==
                        IF IsApiError(error) /\ "data" \in DOMAIN error
                              /\ "message" \in DOMAIN error.data
                              /\ error.data.message # ""
                        THEN error.data.message
                        ELSE IF "message" \in DOMAIN error
                        THEN error.message
                        ELSE "Verification failed. Please try again."
                IN
                /\ domainsList' =
                     [settled EXCEPT !.errorMessage = Some(message)]
                /\ UNCHANGED <<records, clock, nextUid, storeHistory,
                               outsideViews, queryCache, domainDetail>>

\* domainQuery of the DomainDetail view fetches its domain: getDomain(id).
FetchDomainDetail ==
    LET found == findDomainById(records, 3)
    IN /\ found > 0
       /\ domainDetail.pc = "idle"
       /\ domainDetail' = [pc |-> "loaded", domain |-> toJSON(records[found])]
       /\ UNCHANGED <<records, clock, nextUid, storeHistory, outsideViews,
                      queryCache, domainsList>>

\* handleRefreshStatus of DomainDetail: verifyMutation.mutate(domain.domain_name)
\* for a loaded domain that is not verified, unless a verification is pending.
RefreshStatus ==
    /\ domainDetail.pc = "loaded"
    /\ ~domainDetail.domain.isVerified
    /\ domainDetail' = [pc |-> "sent",
                        domain |-> domainDetail.domain.domain_name]
    /\ UNCHANGED <<records, clock, nextUid, storeHistory, outsideViews,
                   queryCache, domainsList>>

\* The verification of DomainDetail is answered out of the store and
\* settles: onSuccess patches ["domain", id] and ["domains"]; onError toasts.
DetailVerifySettles ==
    LET outcome == verifyDomainMock(records, domainDetail.domain,
                                    DOMAIN_VERIFY_TOKEN, clock + 1, nextUid)
    IN /\ domainDetail.pc = "sent"
       /\ IF outcome.error = Undefined
          THEN LET updatedDomain ==
                       toJSON(outcome.records[outcome.returned])
               IN /\ clock < MaxClock
                  /\ clock' = clock + 1
                  /\ records' = outcome.records
                  /\ nextUid' = IF outcome.created THEN nextUid + 1
                                ELSE nextUid
                  /\ domainDetail' = [pc |-> "loaded",
                                      domain |-> updatedDomain]
                  /\ queryCache' =
                       [queryCache EXCEPT
                          !.domains = Some(prependVerified(@, updatedDomain)),
                          !.lastWrite =
                              [by |-> "verify", view |-> "DomainDetail",
                               domain |-> updatedDomain,
                               previous |-> queryCache.domains]]
          ELSE /\ domainDetail' = [pc |-> "idle"]
               /\ UNCHANGED <<records, clock, nextUid, queryCache>>
       /\ UNCHANGED <<storeHistory, outsideViews, domainsList>>

\* The add-domain modal of DomainsList, its URL parameters and its
\* verifications over the seeded store.
NextModal ==
    ClickAddDomain \/ ClickCancel \/ TypeDomain \/ SubmitDomainStep
        \/ ClickBack \/ ToggleAcknowledged \/ SubmitDnsStep
        \/ ApplyNavigation \/ ExternalNavigation \/ SyncModalWithUrl
        \/ FetchDomains \/ VerifySettles

ModalSpec == Init /\ [][NextModal]_vars

\* The ["domains"] query data under the verifications of both views, while
\* another session renames a domain in the store.
NextDomainsCache ==
    ClickAddDomain \/ ToggleAcknowledged \/ SubmitDnsStep
        \/ ApplyNavigation \/ SyncModalWithUrl
        \/ FetchDomains \/ RenameElsewhere \/ VerifySettles
        \/ FetchDomainDetail \/ RefreshStatus \/ DetailVerifySettles

DomainsCacheSpec == Init /\ [][NextDomainsCache]_vars

\* The modal with the effect and the navigation taking their steps: React
\* runs a pending effect and the router completes a navigation it started.
ModalFairSpec ==
    ModalSpec /\ WF_vars(SyncModalWithUrl) /\ WF_vars(ApplyNavigation)

\* The removal of a domain in DomainsList: the confirmation dialog and the
\* remove mutation

\* What removeScansForDomain and removeDomain may reject with: an ApiError
\* whose data carries a message, an Error without text, a thrown non-Error.
RemoveErrors ==
    { [kind |-> "ApiError", data |-> Some([message |-> Some("Removal failed")]),
       message |-> "Request failed"],
      [kind |-> "Error", data |-> Undefined, message |-> ""],
      [kind |-> "thrown", data |-> Undefined, message |-> ""] }

\* isPending of the remove mutation.
isRemovingDomain(view) == view.removal.pc # "idle"

\* Mutant: the dialog's open-change handler ignores the pending removal.
onOpenChange_AlwaysCloses(view, open, removing) ==
    IF ~open THEN [view EXCEPT !.domainToRemove = Undefined]
    ELSE view

\* onOpenChange of the AlertDialog as a render defined it in which
\* isRemovingDomain was `removing`.
onOpenChange(view, open, removing) ==
    IF ~open /\ ~removing THEN [view EXCEPT !.domainToRemove = Undefined]
    ELSE view

\* onError of the remove mutation: a toast with the error's message, and
\* nothing else.
removeOnError(view, error) ==
    LET message ==
            IF error.kind = "ApiError" /\ error.data # Undefined
            THEN LET data == CHOOSE d \in error.data : TRUE
                 IN IF data.message # Undefined
                    THEN CHOOSE text \in data.message : TRUE
                    ELSE error.message
            ELSE IF error.kind \in {"ApiError", "Error"}
            THEN error.message
            ELSE "Unable to remove domain. Please try again."
    IN [view EXCEPT
          !.removal.pc = "idle",
          !.toast =
              IF message # ""
              THEN Some([kind |-> "error", text |-> message, about |-> <<>>])
              ELSE Some([kind |-> "error",
                         text |-> "Unable to remove. Please try again.",
                         about |-> view.removal.domainName])]

\* The trash button of a listed domain: setDomainToRemove(domain). The open
\* dialog covers the list.
ClickRemove ==
    /\ domainsList.domainToRemove = Undefined
    /\ \E i \in 1..Len(OrEmptyList(queryCache.domains)) :
          domainsList' =
            [domainsList EXCEPT
               !.domainToRemove = Some(OrEmptyList(queryCache.domains)[i])]
    /\ UNCHANGED <<records, clock, nextUid, storeHistory, outsideViews,
                   queryCache, domainDetail>>

\* Cancel (disabled while removing) or Escape: the dialog asks to be closed.
DismissRemoveDialog ==
    /\ domainsList.domainToRemove # Undefined
    /\ ~isRemovingDomain(domainsList)
    /\ domainsList' = onOpenChange(domainsList, FALSE,
                                   isRemovingDomain(domainsList))
    /\ UNCHANGED <<records, clock, nextUid, storeHistory, outsideViews,
                   queryCache, domainDetail>>

\* A click on the dialog's action button (disabled while removing):
\* handleConfirmRemove starts the mutation, whose mutationFn requests the
\* removal of the scans, and the AlertDialogAction then asks the dialog to
\* close, as it does for the reset dialog of the Dashboard whose action does
\* nothing but mutate(). onOpenChange is the one of the render in which the
\* button was clicked, where isRemovingDomain was false.
ConfirmRemove ==
    /\ domainsList.domainToRemove # Undefined
    /\ ~isRemovingDomain(domainsList)
    /\ LET target == CHOOSE d \in domainsList.domainToRemove : TRUE
           started == [domainsList EXCEPT
                         !.removal = [pc |-> "scans",
                                      domainId |-> target.id,
                                      domainName |-> target.domain_name,
                                      requested |-> <<"scans">>,
                                      succeeded |-> <<>>]]
       IN domainsList' = onOpenChange(started, FALSE,
                                      isRemovingDomain(domainsList))
    /\ UNCHANGED <<records, clock, nextUid, storeHistory, outsideViews,
                   queryCache, domainDetail>>

\* await removeScansForDomain(domainId) settles: on success the mutationFn
\* goes on to request removeDomain(domainId), on failure it rejects.
ScansRemovalSettles ==
    /\ domainsList.removal.pc = "scans"
    /\ \/ domainsList' =
            [domainsList EXCEPT
               !.removal.pc = "domain",
               !.removal.succeeded = Append(@, "scans"),
               !.removal.requested = Append(@, "domain")]
       \/ \E error \in RemoveErrors :
            domainsList' = removeOnError(domainsList, error)
    /\ UNCHANGED <<records, clock, nextUid, storeHistory, outsideViews,
                   queryCache, domainDetail>>

\* await removeDomain(domainId) settles: on success the store has removed
\* the record and onSuccess filters the cached list by id, invalidates the
\* scans query, toasts and clears the dialog's target; on failure onError.
DomainRemovalSettles ==
    /\ domainsList.removal.pc = "domain"
    /\ \/ /\ records' = removeDomainRecord(records,
                                           domainsList.removal.domainId).records
          /\ queryCache' =
               [queryCache EXCEPT
                  !.domains =
                      Some(SelectSeq(OrEmptyList(@),
                                     LAMBDA domain :
                                         domain.id #
                                             domainsList.removal.domainId)),
                  !.scansInvalidated = TRUE,
                  !.lastWrite = [by |-> "remove"]]
          /\ domainsList' =
               [domainsList EXCEPT
                  !.removal.pc = "idle",
                  !.removal.succeeded = Append(@, "domain"),
                  !.toast = Some([kind |-> "success",
                                  text |-> "and related scans removed",
                                  about |-> domainsList.removal.domainName]),
                  !.domainToRemove = Undefined]
       \/ /\ \E error \in RemoveErrors :
               domainsList' = removeOnError(domainsList, error)
          /\ UNCHANGED <<records, queryCache>>
    /\ UNCHANGED <<clock, nextUid, storeHistory, outsideViews, domainDetail>>

\* The scans query refetches after it was invalidated.
RefetchScans ==
    /\ queryCache.scansInvalidated
    /\ queryCache' = [queryCache EXCEPT !.scansInvalidated = FALSE]
    /\ UNCHANGED <<records, clock, nextUid, storeHistory, outsideViews,
                   domainsList, domainDetail>>

NextRemoval ==
    \/ FetchDomains \/ ClickRemove \/ DismissRemoveDialog \/ ConfirmRemove
    \/ ScansRemovalSettles \/ DomainRemovalSettles \/ RefetchScans

\* DomainsList, its removal dialog and the ["domains"] and scans queries.
RemovalSpec == Init /\ [][NextRemoval]_vars

----------------------------------------------------------------------------
\* Vocabulary of the properties

IsVerifyCall == lastCall.op = "verifyDomainMock"

\* The last call was a verifyDomainMock that threw exactly this ApiError.
Threw(message, status) ==
    /\ IsVerifyCall
    /\ lastCall.error = Some(ApiError(message, status))

\* The last call was a verifyDomainMock that returned a record.
Returned == IsVerifyCall /\ lastCall.error = Undefined

\* Two names are equal after lower-casing and trimming both of them.
SameName(a, b) == trim(toLowerCase(a)) = trim(toLowerCase(b))

\* The same records, in the same order, with every field unchanged.
Untouched(old, new) ==
    /\ Len(new) = Len(old)
    /\ \A i \in 1..Len(old) : new[i] = old[i]

----------------------------------------------------------------------------
\* C1 (as stated): verifyDomainMock with the expected token and a non-empty
\* name that does not end in the sentinel suffix and that no record carries
\* (case-insensitively, after trimming) returns a new verified record with
\* verified_at set, the store grows by exactly that record and no other
\* record changes.
C1_Created ==
    /\ lastCall.error = Undefined
    /\ Len(records) = Len(before) + 1
    /\ lastCall.returned \in 1..Len(records)
    /\ records[lastCall.returned].isVerified = TRUE
    /\ records[lastCall.returned].verified_at # Undefined
    /\ records[lastCall.returned].id \notin Ids(before)
    /\ \A i \in 1..Len(before) : \E j \in 1..Len(records) : records[j] = before[i]

C1_NoRecord ==
    \A i \in 1..Len(before) : ~SameName(before[i].domain_name, lastCall.domain)

C1_AsStated ==
    (/\ IsVerifyCall
     /\ lastCall.token = DOMAIN_VERIFY_TOKEN
     /\ lastCall.domain # <<>>
     /\ ~endsWith(lastCall.domain, SentinelSuffix)
     /\ C1_NoRecord)
    => C1_Created

\* C1 (amended): the same, for a name that is non-empty after trimming and
\* whose trimmed form does not end in the sentinel suffix.
C1_VerifyNewNameCreatesOneRecord ==
    (/\ IsVerifyCall
     /\ lastCall.token = DOMAIN_VERIFY_TOKEN
     /\ trim(lastCall.domain) # <<>>
     /\ ~endsWith(trim(lastCall.domain), SentinelSuffix)
     /\ C1_NoRecord)
    => C1_Created

\* A new name verified in a store that earlier operations have changed.
C1_Witness ==
    /\ IsVerifyCall
    /\ lastCall.token = DOMAIN_VERIFY_TOKEN
    /\ lastCall.domain = NewIoPadded
    /\ C1_NoRecord
    /\ before # createInitialDomains
    /\ lastCall.created
    /\ records[1].domain_name = trim(NewIoPadded)

----------------------------------------------------------------------------
\* C2: verifyDomainMock with the expected token and a non-sentinel name that
\* some verified record carries (case-insensitively) throws AlreadyVerified
\* (409) and marks no record verified.
C2_VerifiedNameIsRejected ==
    (/\ IsVerifyCall
     /\ lastCall.token = DOMAIN_VERIFY_TOKEN
     /\ ~endsWith(lastCall.domain, SentinelSuffix)
     /\ \E i \in 1..Len(before) :
            /\ before[i].isVerified
            /\ toLowerCase(before[i].domain_name) = toLowerCase(lastCall.domain))
    => (/\ Threw(MsgAlreadyVerified, 409)
        /\ Untouched(before, records))

----------------------------------------------------------------------------
\* C3 (as stated): verifyDomainMock with a token other than the expected one
\* throws InvalidToken for every domain name and every store.
C3_AsStated ==
    (IsVerifyCall /\ lastCall.token # DOMAIN_VERIFY_TOKEN)
    => Threw(MsgInvalidToken, 400)

\* C3 (amended): verifyDomainMock with a token other than the expected one
\* throws InvalidToken for every domain name that is non-empty after
\* trimming, and every store.
C3_WrongTokenIsRejected ==
    (/\ IsVerifyCall
     /\ lastCall.token # DOMAIN_VERIFY_TOKEN
     /\ trim(lastCall.domain) # <<>>)
    => Threw(MsgInvalidToken, 400)

\* A wrong token with a name that would otherwise fail the DNS check.
C3_Witness ==
    /\ IsVerifyCall
    /\ lastCall.token # DOMAIN_VERIFY_TOKEN
    /\ lastCall.domain = XInvalidPadded
    /\ Threw(MsgInvalidToken, 400)

----------------------------------------------------------------------------
\* C4: verifyDomainMock with a name that is empty or only whitespace throws
\* MissingDomain (400, "Domain is required.") whatever the token and store.
IsBlank(s) == \A i \in 1..Len(s) : s[i] \in {" ", "\t"}

C4_BlankNameIsRejected ==
    (IsVerifyCall /\ IsBlank(lastCall.domain))
    => Threw("Domain is required.", 400)

\* A whitespace-only name sent with the expected token.
C4_Witness ==
    /\ IsVerifyCall
    /\ lastCall.domain = BlankName
    /\ lastCall.token = DOMAIN_VERIFY_TOKEN
    /\ Threw(MsgMissingDomain, 400)

----------------------------------------------------------------------------
\* C5: verifyDomainMock with the expected token and a name ending in the
\* sentinel suffix throws DnsVerificationFailed (422), whether or not a
\* record of that name exists or is verified.
EndsInSentinel(s) ==
    \E head \in {SubSeq(s, 1, n) : n \in 0..Len(s)} : s = head \o SentinelSuffix

C5_SentinelNameIsRejected ==
    (/\ IsVerifyCall
     /\ lastCall.token = DOMAIN_VERIFY_TOKEN
     /\ EndsInSentinel(lastCall.domain))
    => Threw(MsgDnsFailed, 422)

\* A sentinel name verified while a verified record carries that name.
C5_Witness ==
    /\ IsVerifyCall
    /\ lastCall.token = DOMAIN_VERIFY_TOKEN
    /\ lastCall.domain = XInvalid
    /\ \E i \in 1..Len(before) :
            before[i].domain_name = XInvalid /\ before[i].isVerified
    /\ Threw(MsgDnsFailed, 422)

----------------------------------------------------------------------------
\* C6: updateDomainRecord with an existing id and a domain_name leaves that
\* record with isVerified = false and verified_at cleared, whatever it was
\* before and even when the name does not change; with an unknown id it
\* returns null and changes no record.
IsRenameCall == lastCall.op = "updateDomainRecord"

C6_RenameResetsVerification ==
    IsRenameCall =>
        IF lastCall.domainId \in Ids(before)
        THEN lastCall.updates # Undefined =>
                /\ lastCall.returned \in 1..Len(records)
                /\ records[lastCall.returned].id = lastCall.domainId
                /\ records[lastCall.returned].domain_name \in lastCall.updates
                /\ \A i \in 1..Len(records) :
                        records[i].id = lastCall.domainId =>
                            /\ records[i].isVerified = FALSE
                            /\ records[i].verified_at = Undefined
        ELSE lastCall.returned = 0 /\ Untouched(before, records)

\* A verified record renamed to the name it already has.
C6_Witness ==
    /\ IsRenameCall
    /\ lastCall.updates = Some(TestDev)
    /\ \E i \in 1..Len(before) :
            /\ before[i].id = lastCall.domainId
            /\ before[i].domain_name = TestDev
            /\ before[i].isVerified
            /\ before[i].verified_at # Undefined
            /\ records[i].isVerified = FALSE

----------------------------------------------------------------------------
\* C7: findDomainByName returns a record whenever some stored name and the
\* queried name are equal after lower-casing and trimming both of them.
C7_FindTrimsBothSides ==
    \A q \in VerifyNames :
        (\E i \in 1..Len(records) : SameName(records[i].domain_name, q))
        => findDomainByName(records, q) > 0

----------------------------------------------------------------------------
\* C8: verifyDomainMock reports the first failure that applies, in the order
\* MissingDomain, InvalidToken, DnsVerificationFailed, AlreadyVerified, and
\* marks a record verified only when none of the four applies.

\* The record the lookup by name yields is verified.
AlreadyVerifiedApplies(recs, name) ==
    \E i \in 1..Len(recs) :
        /\ toLowerCase(recs[i].domain_name) = toLowerCase(name)
        /\ recs[i].isVerified
        /\ \A j \in 1..(i - 1) :
                toLowerCase(recs[j].domain_name) # toLowerCase(name)

\* The failure conditions that hold for a request, in the order of 4.1.
FailuresThatApply(recs, domain, token) ==
    SelectSeq(
        <<[kind |-> "MissingDomain", holds |-> trim(domain) = <<>>],
          [kind |-> "InvalidToken", holds |-> token # DOMAIN_VERIFY_TOKEN],
          [kind |-> "DnsVerificationFailed",
           holds |-> endsWith(trim(domain), SentinelSuffix)],
          [kind |-> "AlreadyVerified",
           holds |-> AlreadyVerifiedApplies(recs, trim(domain))]>>,
        LAMBDA c : c.holds)

MessageOf(kind) ==
    CASE kind = "MissingDomain" -> MsgMissingDomain
      [] kind = "InvalidToken" -> MsgInvalidToken
      [] kind = "DnsVerificationFailed" -> MsgDnsFailed
      [] kind = "AlreadyVerified" -> MsgAlreadyVerified

\* The failure kind the last verifyDomainMock call reported, by its conditions.
FirstFailure ==
    Head(FailuresThatApply(before, lastCall.domain, lastCall.token)).kind

Failed == IsVerifyCall /\ lastCall.error # Undefined

NewlyVerified ==
    \E j \in 1..Len(records) :
        /\ records[j].isVerified
        /\ \A i \in 1..Len(before) :
                before[i].id = records[j].id => ~before[i].isVerified

----------------------------------------------------------------------------
\* C9 (as stated): each of the four verification failures is reported
\* with a status code none of the other three has, and with its own message.
FailureKinds ==
    {"MissingDomain", "InvalidToken", "DnsVerificationFailed", "AlreadyVerified"}

\* Every failure is reported with the message of its kind, and no two
\* kinds share a message.
C9_OwnMessage ==
    /\ Failed => \A e \in lastCall.error : e.message = MessageOf(FirstFailure)
    /\ \A k1, k2 \in FailureKinds : k1 # k2 => MessageOf(k1) # MessageOf(k2)

C9_AsStated ==
    /\ C9_OwnMessage
    /\ \A e1, e2 \in thrown : e1.message # e2.message => e1.status # e2.status

\* C9 (amended): MissingDomain and InvalidToken are both reported with
\* status 400; DnsVerificationFailed (422) and AlreadyVerified (409) each
\* have a status code none of the other three has; each of the four has its
\* own message.
C9_StatusesAndMessages ==
    /\ C9_OwnMessage
    /\ \A e1, e2 \in thrown :
            e1.message # e2.message =>
                IF {e1.message, e2.message} = {MsgMissingDomain, MsgInvalidToken}
                THEN e1.status = 400 /\ e2.status = 400
                ELSE e1.status # e2.status
    /\ \A e \in thrown :
            /\ e.message = MsgDnsFailed => e.status = 422
            /\ e.message = MsgAlreadyVerified => e.status = 409

\* Two failures of different kinds have been reported, the second one
\* AlreadyVerified.
C9_Witness ==
    /\ Failed
    /\ FirstFailure = "AlreadyVerified"
    /\ Cardinality(thrown) = 2
    /\ \E e \in thrown : e.message = MsgDnsFailed

----------------------------------------------------------------------------
\* C10: after a successful verification the returned record is at index 0
\* when this call created it and otherwise at the index it had; the ids and
\* the order of all other records are unchanged, and an existing record
\* keeps its id, created_at and scanCount.
IdsInOrder(recs) == [i \in 1..Len(recs) |-> recs[i].id]

C10_VerifiedRecordPosition ==
    Returned =>
        /\ lastCall.returned \in 1..Len(records)
        /\ IF records[lastCall.returned].id \notin Ids(before)
           THEN /\ lastCall.returned = 1
                /\ IdsInOrder(Tail(records)) = IdsInOrder(before)
           ELSE /\ IdsInOrder(records) = IdsInOrder(before)
                /\ records[lastCall.returned].created_at
                        = before[lastCall.returned].created_at
                /\ records[lastCall.returned].scanCount
                        = before[lastCall.returned].scanCount

\* An existing record that is not first in the store is verified in place.
C10_Witness ==
    /\ Returned
    /\ lastCall.returned > 1
    /\ records[lastCall.returned].id \in Ids(before)
    /\ ~before[lastCall.returned].isVerified
    /\ records[lastCall.returned].isVerified
    /\ Len(before) > lastCall.returned

----------------------------------------------------------------------------
\* C11: upsertDomain replaces the record with the given id at its position
\* without changing the count, and otherwise inserts the record at index 0;
\* every other record and the order of the others stay as they were.
IsUpsertCall == lastCall.op = "upsertDomain"

C11_UpsertReplacesOrPrepends ==
    IsUpsertCall =>
        IF lastCall.domain.id \in Ids(before)
        THEN /\ Len(records) = Len(before)
             /\ \A i \in 1..Len(before) :
                    records[i] = IF before[i].id = lastCall.domain.id
                                 THEN lastCall.domain
                                 ELSE before[i]
        ELSE /\ Len(records) = Len(before) + 1
             /\ records[1] = lastCall.domain
             /\ Tail(records) = before

\* A record that is not first in the store is replaced where it stands.
C11_Witness ==
    /\ IsUpsertCall
    /\ \E i \in 2..Len(before) :
            /\ before[i].id = lastCall.domain.id
            /\ before[i] # lastCall.domain
            /\ records[i] = lastCall.domain
    /\ before # createInitialDomains

----------------------------------------------------------------------------
\* C12: removeDomainRecord returns true exactly when a record with the given
\* id was stored; then exactly that record is removed and the others keep
\* content and order; otherwise it returns false and the store is unchanged.
IsRemoveCall == lastCall.op = "removeDomainRecord"

\* The records of a store whose id is not the given one, in order.
Without(recs, domainId) == SelectSeq(recs, LAMBDA r : r.id # domainId)

C12_RemoveExactlyOne ==
    IsRemoveCall =>
        /\ lastCall.returned = (lastCall.domainId \in Ids(before))
        /\ IF lastCall.domainId \in Ids(before)
           THEN /\ Len(records) = Len(before) - 1
                /\ records = Without(before, lastCall.domainId)
           ELSE Untouched(before, records)

\* A record in the middle of the store is removed.
C12_Witness ==
    /\ IsRemoveCall
    /\ lastCall.returned = TRUE
    /\ \E i \in 2..(Len(before) - 1) : before[i].id = lastCall.domainId
    /\ Len(records) = Len(before) - 1

----------------------------------------------------------------------------
\* C13 (as stated): the number of records grows only through a successful
\* verification of a name for which no record existed.
C13_AsStated ==
    Len(records) > Len(before) =>
        /\ Returned
        /\ \A i \in 1..Len(before) :
                ~SameName(before[i].domain_name, lastCall.domain)

\* C13 (amended): the number of records grows, by one, only through a
\* successful verification whose trimmed name no stored name equals when both
\* are lower-cased, or through upsertDomain with an id no record has;
\* updateDomainRecord and removeDomainRecord never increase it.
C13_RecordsEnterByVerifyOrUpsert ==
    /\ Len(records) <= Len(before) + 1
    /\ Len(records) > Len(before) =>
        \/ /\ Returned
           /\ \A i \in 1..Len(before) :
                toLowerCase(before[i].domain_name)
                    # toLowerCase(trim(lastCall.domain))
        \/ /\ IsUpsertCall
           /\ lastCall.domain.id \notin Ids(before)

\* upsertDomain with an unknown id has added a record.
C13_Witness ==
    /\ IsUpsertCall
    /\ lastCall.domain.id \notin Ids(before)
    /\ Len(records) = Len(before) + 1

----------------------------------------------------------------------------
\* C17: a verifyDomainMock call that fails leaves the store as it was: the
\* same records in the same order with every field unchanged.
C17_FailedVerifyChangesNothing ==
    Failed => Untouched(before, records)

\* AlreadyVerified for a record that is not verified by the seed but by an
\* earlier call.
C17_Witness ==
    /\ Threw(MsgAlreadyVerified, 409)
    /\ before # createInitialDomains
    /\ \E i \in 1..Len(before) :
            /\ SameName(before[i].domain_name, lastCall.domain)
            /\ before[i].isVerified
            /\ before[i].verified_at # Some(0)
    /\ records = before

----------------------------------------------------------------------------
\* C19: updateDomainRecord accepts a new name that another record carries,
\* so a store with two records whose names are equal case-insensitively is
\* reached from the seeded store.
DuplicateNames(recs) ==
    \E i, j \in 1..Len(recs) :
        /\ i # j
        /\ toLowerCase(recs[i].domain_name) = toLowerCase(recs[j].domain_name)

C19_RenameAcceptsTakenName ==
    (/\ IsRenameCall
     /\ lastCall.domainId \in Ids(before)
     /\ \E n \in lastCall.updates : \E i \in 1..Len(before) :
            /\ before[i].id # lastCall.domainId
            /\ toLowerCase(before[i].domain_name) = toLowerCase(n))
    => (/\ lastCall.returned \in 1..Len(records)
        /\ records[lastCall.returned].domain_name \in lastCall.updates
        /\ DuplicateNames(records))

\* The first operation on the seeded store renames a record to the name of
\* another seeded record.
C19_Witness ==
    /\ IsRenameCall
    /\ before = createInitialDomains
    /\ ~DuplicateNames(before)
    /\ DuplicateNames(records)
    /\ lastCall.updates = Some(TestDev)

----------------------------------------------------------------------------
\* C20: after verifyDomainMock and removeDomainRecord calls only, no two
\* records have names that are equal after lower-casing and trimming.
C20_NoDuplicateNames ==
    \A i, j \in 1..Len(records) :
        i # j => ~SameName(records[i].domain_name, records[j].domain_name)

\* A padded, differently cased spelling of a name verified by an earlier
\* call is rejected, and the store has grown without duplicates.
C20_Witness ==
    /\ Threw(MsgAlreadyVerified, 409)
    /\ lastCall.domain = NewIoPadded
    /\ Len(records) = Len(createInitialDomains) + 1
    /\ C20_NoDuplicateNames

----------------------------------------------------------------------------
\* The handler of POST /domains/verify

\* The requests the handler has answered.
Answered == {r \in DOMAIN requests : requests[r].pc = "done"}

IsSuccessStatus(status) == status \in 200..299

\* The request body carries this field as a string that is not blank.
IsNonBlankString(field) ==
    \E value \in field : value.type = "string" /\ ~IsBlank(value.chars)

Racing(r, s) ==
    /\ r # s
    /\ requests[r].body.token = Some(DOMAIN_VERIFY_TOKEN)
    /\ requests[s].body.token = Some(DOMAIN_VERIFY_TOKEN)
    /\ requests[r].concurrent \/ requests[s].concurrent
    /\ \E a \in requests[r].body.domain, b \in requests[s].body.domain :
          /\ a.type = "string" /\ b.type = "string"
          /\ SameName(a.chars, b.chars)
          /\ ~IsBlank(a.chars) /\ ~EndsInSentinel(a.chars)
          /\ \A i \in 1..Len(createInitialDomains) :
                ~SameName(createInitialDomains[i].domain_name, a.chars)

\* The positions of the records named as the body of the request names it.
RecordsNamedAs(r) ==
    {i \in 1..Len(records) :
        \E a \in requests[r].body.domain :
            SameName(records[i].domain_name, a.chars)}

\* C18: of two requests in flight together with the expected token for the
\* same new, valid name, exactly one succeeds and creates the record, the
\* other fails with AlreadyVerified, and the store holds exactly one record
\* of that name, whatever the interleaving of the two handler runs.
C18_OneOfTwoRacingRequestsVerifies ==
    \A r, s \in DOMAIN requests :
        Racing(r, s) =>
            /\ Cardinality(RecordsNamedAs(r)) <= 1
            /\ {r, s} \subseteq Answered =>
                  /\ Cardinality(RecordsNamedAs(r)) = 1
                  /\ \E won \in {r, s}, lost \in {r, s} :
                        /\ won # lost
                        /\ requests[won].response.status = 200
                        /\ \A i \in RecordsNamedAs(r) :
                              /\ records[i].id = requests[won].response.body.id
                              /\ records[i].isVerified
                        /\ requests[lost].response =
                              [status |-> 409,
                               body |-> [message |-> MsgAlreadyVerified]]

\* Both racing requests, spelling the name differently, have been answered.
C18_Witness ==
    \E r, s \in Answered :
        /\ Racing(r, s)
        /\ requests[r].body.domain # requests[s].body.domain
        /\ requests[r].response.status = 200

----------------------------------------------------------------------------
\* The queries of the views

----------------------------------------------------------------------------
\* The ScanDetail view

\* The status the view shows: that of its scan, "none" while scan is null.
StatusOf(view) ==
    IF view.scan = Undefined THEN "none"
    ELSE (CHOOSE s \in view.scan : TRUE).target_status

\* A step that leaves the view mounted with the task id it was mounted with.
C16_Step ==
    IF ~scanView.mounted
    THEN scanView'.progress = 0 /\ scanView'.results = <<>>
    ELSE /\ scanView'.progress \in {scanView.progress, scanView.progress + 10}
         /\ scanView'.progress <= 100
         /\ scanView'.progress # scanView.progress =>
               /\ scanView.interval # Undefined
               /\ StatusOf(scanView) = "RUNNING"
         /\ StatusOf(scanView') = "COMPLETED" =>
               /\ StatusOf(scanView) \in {"RUNNING", "COMPLETED"}
               /\ scanView.progress = 100
               /\ scanView'.progress = 100
               /\ Len(scanView'.results) = 2
         /\ StatusOf(scanView) = "RUNNING" => scanView.results = <<>>

\* C16: while the view stays mounted with one task id, progress starts at 0,
\* changes only by +10 on a timer tick, never decreases and never exceeds
\* 100, and the scan goes from RUNNING to COMPLETED only on a tick that finds
\* progress at 100, which sets exactly two findings.
C16_ProgressAndCompletion ==
    [][(scanView'.mounted /\ ~scanView'.taskIdChanged) => C16_Step]_vars

\* The scan of a view mounted with one task id has completed.
C16_Witness ==
    /\ scanView.mounted
    /\ ~scanView.taskIdChanged
    /\ StatusOf(scanView) = "COMPLETED"
    /\ scanView.progress = 100
    /\ Len(scanView.results) = 2

----------------------------------------------------------------------------
\* verified_at and isVerified

\* C21: in every store reached from the seeded one through verification,
\* rename and removal, a record has verified_at set exactly when it is
\* verified.
C21_VerifiedAtIffVerified ==
    \A i \in 1..Len(records) :
        records[i].isVerified <=> records[i].verified_at # Undefined

\* A rename has just taken a verified record back to unverified.
C21_Witness ==
    /\ IsRenameCall
    /\ lastCall.updates # Undefined
    /\ lastCall.returned \in 1..Len(records)
    /\ \E i \in 1..Len(before) :
          /\ before[i].id = lastCall.domainId
          /\ before[i].isVerified
          /\ before[i].verified_at # Undefined
    /\ ~records[lastCall.returned].isVerified
    /\ records[lastCall.returned].verified_at = Undefined

----------------------------------------------------------------------------
\* The mock fallback of the domains API functions

\* The failed request of the call in progress may be answered by the mock.
FallbackApplies ==
    /\ apiCall.useMocks
    /\ \A error \in apiCall.requestError :
          \/ ~apiCall.hasWindow
          \/ "status" \in DOMAIN error /\ error.status = 404
          \/ "name" \in DOMAIN error /\ error.name = "TypeError"

\* C23: after a failed request listDomains and verifyDomain turn to the mock
\* only with mocks enabled and no window, an ApiError of status 404 or a
\* TypeError; after every other failure, and always with mocks disabled, the
\* error of the request is rethrown and the mock store is as it was when the
\* function was called.
C23_MockFallbackOnlyWhenAllowed ==
    apiCall.requestError # Undefined =>
        /\ apiCall.pc \in {"mock", "done"}
        /\ IF FallbackApplies
           THEN apiCall.pc = "done" => apiCall.answeredBy = "mock"
           ELSE /\ apiCall.pc = "done"
                /\ apiCall.answeredBy = ""
                /\ apiCall.thrownError = apiCall.requestError
                /\ records = before

\* verifyDomain has rethrown an ApiError of status 500 with mocks enabled,
\* after an earlier call changed the mock store through the fallback.
C23_Witness ==
    /\ apiCall.pc = "done"
    /\ apiCall.fn = "verifyDomain"
    /\ apiCall.useMocks
    /\ apiCall.hasWindow
    /\ \E error \in apiCall.thrownError :
          "status" \in DOMAIN error /\ error.status = 500
    /\ apiCall.requestError = apiCall.thrownError
    /\ records # createInitialDomains

----------------------------------------------------------------------------
\* Completion of the simulated scan

\* The scan of the view has completed, with a completion timestamp.
ScanCompleted ==
    /\ scanView.mounted
    /\ StatusOf(scanView) = "COMPLETED"
    /\ scanView.progress = 100
    /\ \A s \in scanView.scan : s.completed_at # Undefined
    /\ scanView.interval = Undefined

\* The view is mounted with the task id it was mounted with.
MountedWithOneTaskId == scanView.mounted /\ ~scanView.taskIdChanged

\* C24: a view that stays mounted with one task id, with a timer that keeps
\* firing, reaches COMPLETED with progress 100 and a completion timestamp;
\* the interval is then cleared and status, progress and findings stay as
\* they are; an unmounted view has no interval left, so no tick changes it.
C24_ScanCompletesAndStops ==
    /\ MountedWithOneTaskId
          ~> (ScanCompleted \/ ~MountedWithOneTaskId)
    /\ [][(MountedWithOneTaskId /\ StatusOf(scanView) = "COMPLETED"
              /\ MountedWithOneTaskId')
            => /\ ScanCompleted
               /\ scanView'.scan = scanView.scan
               /\ scanView'.progress = scanView.progress
               /\ scanView'.results = scanView.results]_vars
    /\ [](~scanView.mounted => (scanView.interval = Undefined
                                  /\ ~ENABLED IntervalTick))

\* The scan of a view mounted with one task id has completed at some time
\* and the interval is cleared.
C24_Witness ==
    /\ MountedWithOneTaskId
    /\ ScanCompleted
    /\ \E s \in scanView.scan : s.completed_at = Some(clock)
    /\ scanView.aiSummary # ""

\* C25: whenever the scan shown is RUNNING, the findings and the AI summary
\* are empty and progress is ten times the ticks since that scan was set,
\* also after the task id of the mounted view changed.
C25_RunningScanStartsClean ==
    (scanView.mounted /\ StatusOf(scanView) = "RUNNING") =>
        /\ scanView.results = <<>>
        /\ scanView.aiSummary = ""
        /\ scanView.progress = 10 * scanView.ticks

----------------------------------------------------------------------------
\* The NewScan form

\* C30: the view navigates to a scan page only after a submission at which
\* the authorization checkbox was checked; new scan defaults, whenever they
\* arrive and are applied, leave the authorization value, the selected domain
\* and the target URL as they are and set the checks, timeout, evidence,
\* auto-open and AI fields only.
C30_AuthorizedStartAndDefaults ==
    /\ [](scanForm.page = "scan page" =>
            \E values \in scanForm.submitted : values.authorization = TRUE)
    /\ [][(scanForm'.defaultsData # scanForm.defaultsData
              \/ scanForm'.effectPending # scanForm.effectPending)
            => /\ scanForm'.values.authorization
                    = scanForm.values.authorization
               /\ scanForm'.values.domain_id = scanForm.values.domain_id
               /\ scanForm'.values.target_url = scanForm.values.target_url
               /\ scanForm'.page = scanForm.page]_vars

\* A scan was started from a form the defaults had been applied to after the
\* user had checked the authorization box and chosen the second domain.
C30_Witness ==
    /\ scanForm.page = "scan page"
    /\ ~scanForm.effectPending
    /\ \E defaults \in scanForm.defaultsData :
          /\ scanForm.values.timeout = defaults.timeout
          /\ scanForm.values.timeout # 60
    /\ scanForm.values.authorization
    /\ scanForm.values.domain_id = "dom_2"

----------------------------------------------------------------------------
\* The ["domains"] query data after a verification

SameIdTwice(list) ==
    \E i, j \in 1..Len(list) : i # j /\ list[i].id = list[j].id

\* The k-th smallest of a set of positions.
KthOf(positions, k) ==
    CHOOSE i \in positions : Cardinality({j \in positions : j < i}) = k - 1

\* C22: after a successful verification in DomainsList or DomainDetail the
\* cached list has the returned record at index 0 and no other entry with its
\* id or its domain_name; every other entry cached before is kept, in its
\* previous relative order; a list without two entries of one id stays so.
C22_VerifiedDomainIsPrepended ==
    queryCache.lastWrite.by = "verify" =>
        LET domain == queryCache.lastWrite.domain
            previous == OrEmptyList(queryCache.lastWrite.previous)
            now == OrEmptyList(queryCache.domains)
            others == {i \in 1..Len(previous) :
                          /\ previous[i].id # domain.id
                          /\ previous[i].domain_name # domain.domain_name}
        IN /\ queryCache.domains # Undefined
           /\ Len(now) = 1 + Cardinality(others)
           /\ now[1] = domain
           /\ \A k \in 1..Cardinality(others) :
                 now[k + 1] = previous[KthOf(others, k)]
           /\ \A k \in 2..Len(now) :
                 /\ now[k].id # domain.id
                 /\ now[k].domain_name # domain.domain_name
           /\ ~SameIdTwice(previous) => ~SameIdTwice(now)

\* DomainsList verified a name whose cached entry had gone stale: the list held
\* an entry of that name under another id, which was dropped, and two others.
C22_Witness ==
    /\ queryCache.lastWrite.by = "verify"
    /\ queryCache.lastWrite.view = "DomainsList"
    /\ LET domain == queryCache.lastWrite.domain
           previous == OrEmptyList(queryCache.lastWrite.previous)
       IN /\ \E i \in 1..Len(previous) :
                /\ previous[i].id # domain.id
                /\ previous[i].domain_name = domain.domain_name
          /\ Len(OrEmptyList(queryCache.domains)) = 3

----------------------------------------------------------------------------
\* The add-domain modal

\* A verification is dispatched in this step: the view has a mutation
\* attached to its observer that was not there before.
Dispatched ==
    \E m \in domainsList'.verifications :
        m.attached /\ m \notin domainsList.verifications

ModalSettled ==
    /\ domainsList.pendingParams = Undefined
    /\ domainsList.isModalOpen <=> domainsList.modalParam = Some(ADD)

\* C28: the outcome of a verification touches the modal session that issued
\* it only: when a verification the view let go (Cancel, Back) settles while
\* the modal is settled at the DNS step again, its failure does not set the
\* error message and its success does not close the modal.
C28_LateOutcomeLeavesNewSession ==
    [][\A m \in domainsList.verifications :
          (/\ ~m.attached
           /\ m \notin domainsList'.verifications
           /\ DnsStep /\ ModalSettled)
              => /\ domainsList'.errorMessage = domainsList.errorMessage
                 /\ domainsList'.isModalOpen]_vars

\* The modal state as useState initialises it.
ModalStateReset ==
    /\ domainsList.domainInput = <<>>
    /\ ~domainsList.acknowledged
    /\ domainsList.errorMessage = Undefined
    /\ domainsList.modalStep = "domain"

\* The steps by which the user opens or closes the modal or changes the URL.
UserMovesModal == ClickAddDomain \/ ClickCancel \/ ExternalNavigation

\* Once the user leaves the modal and the URL alone the view settles for
\* good, whatever the order of the state update and the URL update.
C27_Converges == <>[][~UserMovesModal]_vars => <>[]ModalSettled

\* C27: the modal and the modal parameter converge (after openModal,
\* closeModal or a change of the URL the view settles with the modal open
\* exactly when the parameter is "add", never oscillating for ever), and
\* settled closed the modal state has its initial values.
C27_ModalFollowsUrl ==
    /\ <>[][~UserMovesModal]_vars => <>[]ModalSettled
    /\ []((ModalSettled /\ ~domainsList.isModalOpen) => ModalStateReset)

\* ---------------------------------------------------------------------
\* Removal of a domain in the domains list view

\* The removal requests made and the ones that succeeded, in order.
RemovalSequenced ==
    domainsList'.removal.requested # domainsList.removal.requested =>
        \/ /\ domainsList'.removal.requested = <<"scans">>
           /\ domainsList'.removal.succeeded = <<>>
        \/ /\ domainsList'.removal.requested = <<"scans", "domain">>
           /\ domainsList.removal.requested = <<"scans">>
           /\ domainsList'.removal.succeeded = <<"scans">>

\* This step drops a domain from the cached list or invalidates the scans.
RemovalPatchesCache ==
    \/ /\ queryCache'.domains # queryCache.domains
       /\ queryCache'.lastWrite.by = "remove"
    \/ ~queryCache.scansInvalidated /\ queryCache'.scansInvalidated

CachePatchedAfterBoth ==
    RemovalPatchesCache =>
        /\ domainsList.removal.succeeded = <<"scans">>
        /\ domainsList'.removal.succeeded = <<"scans", "domain">>
        /\ queryCache'.scansInvalidated
        /\ queryCache'.domains =
             Some(SelectSeq(OrEmptyList(queryCache.domains),
                            LAMBDA d : d.id # domainsList.removal.domainId))

\* One of the two requests of the removal fails in this step.
RemovalFails ==
    /\ domainsList.removal.pc # "idle"
    /\ domainsList'.removal.pc = "idle"
    /\ domainsList'.removal.succeeded # <<"scans", "domain">>

FailureLeavesCacheAndToasts ==
    RemovalFails =>
        /\ queryCache' = queryCache
        /\ records' = records
        /\ domainsList'.removal.succeeded = domainsList.removal.succeeded
        /\ \E t \in domainsList'.toast : t.kind = "error"

\* The confirmation dialog shows the domain whose removal is under way.
DialogShowsRemoved(view) ==
    \E d \in view.domainToRemove : d.id = view.removal.domainId

FailureKeepsTarget ==
    RemovalFails => /\ DialogShowsRemoved(domainsList)
                    /\ domainsList'.domainToRemove = domainsList.domainToRemove

NoDismissalWhilePending ==
    (domainsList'.removal.pc # "idle"
        /\ domainsList.domainToRemove # Undefined)
    => domainsList'.domainToRemove = domainsList.domainToRemove

\* C29: removing a domain requests the removal of its scans first and the
\* removal of the domain only after that succeeded; the domain is dropped
\* from the cached list and the scans query invalidated only when both
\* succeeded; when a request fails the cached list is unchanged, nothing of
\* what succeeded is undone, the error is toasted and the confirmation dialog
\* keeps its target; the dialog is not dismissed while the removal is pending.
C29_RemovalInOrderAndDialogKept ==
    [][/\ RemovalSequenced
       /\ CachePatchedAfterBoth
       /\ FailureLeavesCacheAndToasts
       /\ FailureKeepsTarget
       /\ NoDismissalWhilePending]_vars

====
